---- MODULE Spec2Model ----
(***************************************************************************)
(* Model of wdio-openapi-coverage-service: path normalization, per-worker  *)
(* hit tracking and 5xx tracking (axios interceptors), per-worker          *)
(* persistence, and cross-worker aggregation into the coverage report.     *)
(*                                                                         *)
(* Paths and endpoint keys are real strings; the JavaScript string         *)
(* methods the code uses (split, includes, startsWith, replace, ...) are   *)
(* computed character by character.  A RegExp is a sequence of atoms       *)
(* (literal text, \d+, [^/]+) with optional ^ and $ anchors, matched       *)
(* greedily with backtracking as the JavaScript engine does.               *)
(***************************************************************************)
EXTENDS Integers, Sequences, FiniteSets, TLC

VARIABLES
    apiSpec,        \* the loaded OpenAPI document, or NoSpec
    patterns,       \* the IPathPattern list handed to normalizePath
    endpointPatternFile, \* the entries of the endpoint pattern file, <<>> without one
    pc,             \* per worker: "idle", "running" or "done"
    hitEndpoints,   \* per worker: the in-memory Set<string>, in insertion order
    endpointErrors, \* per worker: the in-memory error map, in insertion order
    hitFile,        \* per worker: content of endpoints-<worker>.json, or NoFile
    errFile,        \* per worker: content of errors-<worker>.json, or NoFile
    report,         \* the report file at outputPath, or NoReport
    requests,       \* history, per worker: the keys observed and their number
    responses,      \* history: per status, the number of error responses seen
    completion,     \* history: how the last interceptor call completed
    nPath,          \* normalizePath harness: the input path
    nOut,           \* normalizePath harness: results of successive applications
    nPhase,         \* normalizePath harness: number of applications done
    probe,          \* pattern harness: a path and the patterns that accept it
    learned,        \* pattern learning: the raw paths recorded, the patterns inferred
    normalized      \* normalizeEndpoints harness: the endpoints given and returned

vars == <<apiSpec, patterns, endpointPatternFile, pc, hitEndpoints, endpointErrors, hitFile, errFile,
          report, requests, responses, completion, nPath, nOut, nPhase,
          probe, learned, normalized>>

-----------------------------------------------------------------------------
(* Bounds *)

MaxRequests == 2
MaxResponses == 2
MaxPaths == 3
MaxEndpoints == 3

-----------------------------------------------------------------------------
(* JavaScript values and string methods *)

Undefined == "<undefined>"

CharAt(s, i) == SubSeq(s, i, i)

\* String.prototype.includes
Includes(s, sub) ==
    \E i \in 1..(Len(s) - Len(sub) + 1) : SubSeq(s, i, i + Len(sub) - 1) = sub

\* String.prototype.startsWith
StartsWith(s, pre) ==
    Len(pre) <= Len(s) /\ SubSeq(s, 1, Len(pre)) = pre

\* String.prototype.endsWith
EndsWith(s, suf) ==
    Len(suf) <= Len(s) /\ SubSeq(s, Len(s) - Len(suf) + 1, Len(s)) = suf

\* String.prototype.indexOf(ch, from), 1-based; 0 when absent
RECURSIVE IndexFrom(_, _, _)
IndexFrom(s, ch, i) ==
    IF i > Len(s) THEN 0
    ELSE IF CharAt(s, i) = ch THEN i
    ELSE IndexFrom(s, ch, i + 1)

\* String.prototype.split(sep) for a one-character separator
RECURSIVE Split(_, _)
Split(s, sep) ==
    LET i == IndexFrom(s, sep, 1) IN
    IF i = 0 THEN <<s>>
    ELSE <<SubSeq(s, 1, i - 1)>> \o Split(SubSeq(s, i + 1, Len(s)), sep)

\* Array.prototype.filter(Boolean) on an array of strings
FilterBoolean(a) == SelectSeq(a, LAMBDA x : x # "")

\* path.split('/').filter(Boolean)
Segments(path) == FilterBoolean(Split(path, "/"))

\* const [method, path] = endpoint.split(' ', 2)
SplitKey(endpoint) ==
    LET parts == Split(endpoint, " ") IN
    [method |-> parts[1],
     path   |-> IF Len(parts) >= 2 THEN parts[2] ELSE Undefined]

LowerChars == <<"a", "b", "c", "d", "e", "f", "g", "h", "i", "j", "k", "l", "m",
                "n", "o", "p", "q", "r", "s", "t", "u", "v", "w", "x", "y", "z">>
UpperChars == <<"A", "B", "C", "D", "E", "F", "G", "H", "I", "J", "K", "L", "M",
                "N", "O", "P", "Q", "R", "S", "T", "U", "V", "W", "X", "Y", "Z">>

\* String.prototype.toUpperCase
RECURSIVE ToUpperCase(_)
ToUpperCase(s) ==
    IF s = "" THEN ""
    ELSE LET c == CharAt(s, 1)
             up == IF \E k \in 1..26 : LowerChars[k] = c
                   THEN UpperChars[CHOOSE k \in 1..26 : LowerChars[k] = c]
                   ELSE c
         IN up \o ToUpperCase(SubSeq(s, 2, Len(s)))

SeqToSet(a) == {a[i] : i \in 1..Len(a)}

\* Set.prototype.add on an insertion-ordered set
SetAdd(a, x) == IF x \in SeqToSet(a) THEN a ELSE Append(a, x)

-----------------------------------------------------------------------------
(* RegExp.  A regular expression is a sequence of atoms with optional ^ and *)
(* $ anchors:                                                               *)
(*   lit   literal text                                                     *)
(*   plus  one or more characters of a class, greedy    (\d+, [^/]+)        *)
(*   rep   exactly n characters of a class              ([0-9a-f]{24})      *)
(*   alt   ordered alternatives, each a sequence of atoms   (a|b|c)         *)
(*   eos   end of input inside a group                      (?:\/|$)        *)
(* Regular expressions with the g or y flag keep state between calls and    *)
(* are not among the patterns modelled.                                     *)

Lit(s) == [k |-> "lit", s |-> s, c |-> "", n |-> 0, alts |-> <<>>]
Plus(c) == [k |-> "plus", s |-> "", c |-> c, n |-> 0, alts |-> <<>>]
Rep(c, n) == [k |-> "rep", s |-> "", c |-> c, n |-> n, alts |-> <<>>]
Alt(alts) == [k |-> "alt", s |-> "", c |-> "", n |-> 0, alts |-> alts]
Eos == [k |-> "eos", s |-> "", c |-> "", n |-> 0, alts |-> <<>>]

Digits == Plus("digit")
NonSlash == Plus("nonslash")

Regex(atoms, start, end) == [atoms |-> atoms, start |-> start, end |-> end]

IsDigit(ch) == ch \in {"0", "1", "2", "3", "4", "5", "6", "7", "8", "9"}
IsHex(ch) == IsDigit(ch) \/ ch \in {"a", "b", "c", "d", "e", "f"}

InClass(c, ch) ==
    CASE c = "digit" -> IsDigit(ch)
      [] c = "hex" -> IsHex(ch)
      [] c = "notclose" -> ch # "}"
      [] c = "slash" -> ch = "/"
      [] OTHER -> ch # "/"

\* length of the longest run of class characters starting at position i
RECURSIVE RunLen(_, _, _)
RunLen(c, s, i) ==
    IF i > Len(s) \/ ~InClass(c, CharAt(s, i)) THEN 0
    ELSE 1 + RunLen(c, s, i + 1)

\* Backtracking match of the atoms at position i: the position after the
\* match the engine finds first (greedy quantifiers, alternatives in order),
\* 0 when there is none.
RECURSIVE MatchAt(_, _, _, _), Greedy(_, _, _, _, _), TryAlts(_, _, _, _, _, _)
MatchAt(atoms, s, i, end) ==
    IF atoms = <<>> THEN (IF end /\ i # Len(s) + 1 THEN 0 ELSE i)
    ELSE LET a == Head(atoms) IN
         CASE a.k = "lit" ->
                IF i + Len(a.s) - 1 <= Len(s) /\ SubSeq(s, i, i + Len(a.s) - 1) = a.s
                THEN MatchAt(Tail(atoms), s, i + Len(a.s), end)
                ELSE 0
           [] a.k = "plus" -> Greedy(atoms, s, i, RunLen(a.c, s, i), end)
           [] a.k = "rep" ->
                IF RunLen(a.c, s, i) >= a.n
                THEN MatchAt(Tail(atoms), s, i + a.n, end)
                ELSE 0
           [] a.k = "eos" ->
                IF i = Len(s) + 1 THEN MatchAt(Tail(atoms), s, i, end) ELSE 0
           [] OTHER -> TryAlts(a.alts, 1, Tail(atoms), s, i, end)

Greedy(atoms, s, i, n, end) ==
    IF n < 1 THEN 0
    ELSE LET r == MatchAt(Tail(atoms), s, i + n, end) IN
         IF r # 0 THEN r ELSE Greedy(atoms, s, i, n - 1, end)

TryAlts(alts, j, rest, s, i, end) ==
    IF j > Len(alts) THEN 0
    ELSE LET r == MatchAt(alts[j] \o rest, s, i, end) IN
         IF r # 0 THEN r ELSE TryAlts(alts, j + 1, rest, s, i, end)

\* RegExp.prototype.exec: the leftmost match [index, next], index = 0 when none
RECURSIVE ExecFrom(_, _, _)
ExecFrom(re, s, i) ==
    IF i > Len(s) + 1 \/ (re.start /\ i > 1) THEN [index |-> 0, next |-> 0]
    ELSE LET r == MatchAt(re.atoms, s, i, re.end) IN
         IF r # 0 THEN [index |-> i, next |-> r]
         ELSE IF re.start THEN [index |-> 0, next |-> 0]
         ELSE ExecFrom(re, s, i + 1)

\* RegExp.prototype.test (no g flag)
RegexTest(re, s) == ExecFrom(re, s, 1).index # 0

\* String.prototype.replace(regex, replacement) with no g flag and a
\* replacement that has no $ sequences: only the first match is replaced
StringReplace(s, re, replacement) ==
    LET m == ExecFrom(re, s, 1) IN
    IF m.index = 0 THEN s
    ELSE SubSeq(s, 1, m.index - 1) \o replacement \o SubSeq(s, m.next, Len(s))

\* String.prototype.replace(regex, replacement) with the g flag: every match,
\* left to right, none overlapping (the patterns used never match empty)
RECURSIVE StringReplaceAll(_, _, _, _)
StringReplaceAll(s, re, replacement, from) ==
    LET m == ExecFrom(re, s, from) IN
    IF m.index = 0 THEN SubSeq(s, from, Len(s))
    ELSE SubSeq(s, from, m.index - 1) \o replacement
         \o StringReplaceAll(s, re, replacement, m.next)

-----------------------------------------------------------------------------
(* OpenAPI document (types/index.ts).  A document is [paths, components];   *)
(* paths is the sequence of path items in Object.entries order, each        *)
(* [path, parameters, ops], ops the operations in key order, each           *)
(* [method, parameters].  A parameter is [name, schema, ref]; a schema is   *)
(* [type, format, pattern, enum] with "" / <<>> for an absent field; the    *)
(* schema pattern is given as the atoms of its regular expression.          *)

Schema(type, format, pattern, enum) ==
    [present |-> TRUE, type |-> type, format |-> format, pattern |-> pattern,
     enum |-> enum]

NoSchema ==
    [present |-> FALSE, type |-> "", format |-> "", pattern |-> <<>>, enum |-> <<>>]

Param(name, schema) == [name |-> name, schema |-> schema, ref |-> ""]
RefParam(ref) == [name |-> Undefined, schema |-> NoSchema, ref |-> ref]

Op(method, parameters) == [method |-> method, parameters |-> parameters]

PathItem(path, parameters, ops) ==
    [path |-> path, parameters |-> parameters, ops |-> ops]

Document(paths, components) ==
    [isNull |-> FALSE, paths |-> paths, components |-> components]

\* apiSpec === null (no document could be loaded)
NoSpec == [isNull |-> TRUE, paths |-> <<>>, components |-> <<>>]

\* apiSpec?.paths is truthy
HasPaths(spec) == ~spec.isNull

SpecPaths(spec) ==
    IF HasPaths(spec) THEN [i \in 1..Len(spec.paths) |-> spec.paths[i].path] ELSE <<>>

\* apiSpec.paths[key] is truthy
HasPath(spec, key) == HasPaths(spec) /\ key \in SeqToSet(SpecPaths(spec))

-----------------------------------------------------------------------------
(* lib/openapi-processor.ts *)

HttpMethods == <<"get", "put", "post", "delete", "options", "head", "patch", "trace">>

RECURSIVE ToLowerCase(_)
ToLowerCase(s) ==
    IF s = "" THEN ""
    ELSE LET c == CharAt(s, 1)
             low == IF \E k \in 1..26 : UpperChars[k] = c
                    THEN LowerChars[CHOOSE k \in 1..26 : UpperChars[k] = c]
                    ELSE c
         IN low \o ToLowerCase(SubSeq(s, 2, Len(s)))

\* the keys of one path item that name an HTTP method, upper-cased and
\* prefixed to the path
RECURSIVE ItemEndpoints(_, _, _)
ItemEndpoints(item, j, acc) ==
    IF j > Len(item.ops) THEN acc
    ELSE ItemEndpoints(item, j + 1,
            IF ToLowerCase(item.ops[j].method) \in SeqToSet(HttpMethods)
            THEN SetAdd(acc, ToUpperCase(item.ops[j].method) \o " " \o item.path)
            ELSE acc)

RECURSIVE ExtractFrom(_, _, _)
ExtractFrom(spec, i, acc) ==
    IF i > Len(spec.paths) THEN acc
    ELSE ExtractFrom(spec, i + 1, ItemEndpoints(spec.paths[i], 1, acc))

\* extractEndpointsFromSpec: the Set of "METHOD path" keys, in insertion order
extractEndpointsFromSpec(spec) ==
    IF ~HasPaths(spec) THEN <<>> ELSE ExtractFrom(spec, 1, <<>>)

\* [...templatePath.matchAll(/{([^}]+)}/g)]: the template cut into literal
\* text and {name} placeholders
RECURSIVE TemplateTokens(_, _, _)
TemplateTokens(t, i, lit) ==
    LET flush == IF lit = "" THEN <<>> ELSE <<[isParam |-> FALSE, text |-> lit]>> IN
    IF i > Len(t) THEN flush
    ELSE LET j == IF CharAt(t, i) = "{" THEN IndexFrom(t, "}", i + 1) ELSE 0 IN
         IF j > i + 1
         THEN flush \o <<[isParam |-> TRUE, text |-> SubSeq(t, i + 1, j - 1)]>>
                    \o TemplateTokens(t, j + 1, "")
         ELSE TemplateTokens(t, i + 1, lit \o CharAt(t, i))

UuidAtoms ==
    <<Rep("hex", 8), Lit("-"), Rep("hex", 4), Lit("-"), Rep("hex", 4), Lit("-"),
      Rep("hex", 4), Lit("-"), Rep("hex", 12)>>

DateAtoms == <<Rep("digit", 4), Lit("-"), Rep("digit", 2), Lit("-"), Rep("digit", 2)>>

DateTimeAtoms ==
    DateAtoms \o <<Lit("T"), Rep("digit", 2), Lit(":"), Rep("digit", 2), Lit(":"),
                   Rep("digit", 2),
                   Alt(<< <<Lit("."), Digits>>, <<>> >>),
                   Alt(<< <<Lit("Z")>>,
                          <<Alt(<< <<Lit("+")>>, <<Lit("-")>> >>), Rep("digit", 2),
                            Lit(":"), Rep("digit", 2)>> >>)>>

\* path-level parameters followed by the parameters of every operation, in
\* the fixed method order of the code
OperationOrder == <<"get", "post", "put", "delete", "patch", "options", "head">>

RECURSIVE OperationParameters(_, _)
OperationParameters(item, m) ==
    IF m > Len(OperationOrder) THEN <<>>
    ELSE LET here == SelectSeq(item.ops, LAMBDA o : o.method = OperationOrder[m]) IN
         (IF here = <<>> THEN <<>> ELSE here[1].parameters)
         \o OperationParameters(item, m + 1)

AllParameters(item) == item.parameters \o OperationParameters(item, 1)

\* the last segment of a $ref
RefName(ref) == LET parts == Split(ref, "/") IN parts[Len(parts)]

\* paramInfoMap.get(paramName): the schema the code finds for a placeholder,
\* NoSchema when it finds none
ParamInfo(spec, item, paramName) ==
    LET defs == SelectSeq(AllParameters(item), LAMBDA q : q.name = paramName) IN
    IF defs = <<>> THEN NoSchema
    ELSE LET paramDef == defs[1] IN
         IF paramDef.schema.present THEN paramDef.schema
         ELSE IF paramDef.ref # "" /\ RefName(paramDef.ref) # ""
                 /\ RefName(paramDef.ref) \in DOMAIN spec.components
         THEN spec.components[RefName(paramDef.ref)].schema
         ELSE NoSchema

\* variant: the type is looked at before the enum
ParamPattern_TypeFirst(paramName, info) ==
    IF ~info.present THEN <<NonSlash>>
    ELSE IF info.pattern # <<>> THEN info.pattern
    ELSE IF info.type = "integer" \/ info.type = "number" THEN <<Digits>>
    ELSE IF Len(info.enum) > 0
    THEN <<Alt([e \in 1..Len(info.enum) |-> <<Lit(info.enum[e])>>])>>
    ELSE IF info.format = "uuid" THEN UuidAtoms
    ELSE IF info.format = "date" THEN DateAtoms
    ELSE IF info.format = "date-time" THEN DateTimeAtoms
    ELSE IF info.type = "string" /\ Includes(ToLowerCase(paramName), "id")
    THEN <<Alt(<< <<Rep("hex", 24)>>, UuidAtoms, <<Digits>> >>)>>
    ELSE <<NonSlash>>

\* paramPattern: the matcher chosen for one placeholder
ParamPattern(paramName, info) ==
    IF ~info.present THEN <<NonSlash>>
    ELSE IF info.pattern # <<>> THEN info.pattern
    ELSE IF Len(info.enum) > 0
    THEN <<Alt([e \in 1..Len(info.enum) |-> <<Lit(info.enum[e])>>])>>
    ELSE IF info.type = "integer" \/ info.type = "number" THEN <<Digits>>
    ELSE IF info.format = "uuid" THEN UuidAtoms
    ELSE IF info.format = "date" THEN DateAtoms
    ELSE IF info.format = "date-time" THEN DateTimeAtoms
    ELSE IF info.type = "string" /\ Includes(ToLowerCase(paramName), "id")
    THEN <<Alt(<< <<Rep("hex", 24)>>, UuidAtoms, <<Digits>> >>)>>
    ELSE <<NonSlash>>

RECURSIVE TokensToAtoms(_, _, _, _)
TokensToAtoms(spec, item, tokens, i) ==
    IF i > Len(tokens) THEN <<>>
    ELSE (IF tokens[i].isParam
          THEN ParamPattern(tokens[i].text, ParamInfo(spec, item, tokens[i].text))
          ELSE <<Lit(tokens[i].text)>>)
         \o TokensToAtoms(spec, item, tokens, i + 1)

PathPattern(pattern, template, priority) ==
    [pattern |-> pattern, template |-> template, priority |-> priority]

RECURSIVE GeneratePatternsFrom(_, _)
GeneratePatternsFrom(spec, i) ==
    IF i > Len(spec.paths) THEN <<>>
    ELSE LET item == spec.paths[i] IN
         (IF ~Includes(item.path, "{") THEN <<>>
          ELSE <<PathPattern(
                    Regex(TokensToAtoms(spec, item, TemplateTokens(item.path, 1, ""), 1),
                          TRUE, TRUE),
                    item.path, 50)>>)
         \o GeneratePatternsFrom(spec, i + 1)

\* generatePathPatterns: one ^...$ pattern of priority 50 per templated path
generatePathPatterns(spec) ==
    IF ~HasPaths(spec) THEN <<>> ELSE GeneratePatternsFrom(spec, 1)

\* /^\d+$/, /^[0-9a-f]{24}$/i, the uuid pattern with the i flag and
\* /^[0-9a-f]{12,40}$/i tested on one segment
AllDigits(segment) == RegexTest(Regex(<<Digits>>, TRUE, TRUE), segment)
IsObjectId(segment) == RegexTest(Regex(<<Rep("hex", 24)>>, TRUE, TRUE), ToLowerCase(segment))
IsUuid(segment) == RegexTest(Regex(UuidAtoms, TRUE, TRUE), ToLowerCase(segment))
IsHash(segment) ==
    /\ Len(segment) >= 12 /\ Len(segment) <= 40
    /\ RunLen("hex", ToLowerCase(segment), 1) = Len(segment)

ResourceNames ==
    {"users", "products", "orders", "items", "posts", "comments", "auth", "login",
     "categories", "tags", "api"}

\* segment.length > 20 || /[A-F0-9]{8,}|[-_]/.test(segment)
LooksLikeToken(segment) ==
    \/ Len(segment) > 20
    \/ \E i \in 1..(Len(segment) - 7) :
          \A k \in i..(i + 7) :
              IsDigit(CharAt(segment, k)) \/ CharAt(segment, k) \in {"A", "B", "C", "D", "E", "F"}
    \/ Includes(segment, "-") \/ Includes(segment, "_")

\* groupSimilarPaths: what one segment contributes to the signature
SegmentSignature(segment) ==
    IF AllDigits(segment) THEN "{number}"
    ELSE IF IsObjectId(segment) THEN "{objectId}"
    ELSE IF IsUuid(segment) THEN "{uuid}"
    ELSE IF IsHash(segment) THEN "{hash}"
    ELSE IF RegexTest(Regex(<<Lit("v"), Digits>>, TRUE, TRUE), segment) THEN segment
    ELSE IF ToLowerCase(segment) \in ResourceNames THEN ToLowerCase(segment)
    ELSE IF LooksLikeToken(segment) THEN "{token}"
    ELSE segment

\* Array.prototype.join('/')
RECURSIVE JoinSlash(_)
JoinSlash(a) ==
    IF a = <<>> THEN ""
    ELSE IF Len(a) = 1 THEN a[1]
    ELSE a[1] \o "/" \o JoinSlash(Tail(a))

\* the signature of a path: its non-empty segments, each replaced by its class
PathSignature(path) ==
    LET segments == Segments(path) IN
    JoinSlash([i \in 1..Len(segments) |-> SegmentSignature(segments[i])])

\* groupSimilarPaths: the Map from signature to the paths that have it, the
\* signatures and the paths of each in the order of first appearance
RECURSIVE groupSimilarPaths(_, _, _)
groupSimilarPaths(paths, i, groups) ==
    IF i > Len(paths) THEN groups
    ELSE LET signature == PathSignature(paths[i])
             at == {g \in 1..Len(groups) : groups[g].key = signature}
         IN groupSimilarPaths(paths, i + 1,
               IF at = {} THEN Append(groups, [key |-> signature, paths |-> <<paths[i]>>])
               ELSE [g \in 1..Len(groups) |->
                        IF g \in at
                        THEN [groups[g] EXCEPT !.paths = Append(@, paths[i])]
                        ELSE groups[g]])

\* variant: one accepted path is enough
arePathsCoveredByPatterns_Some(paths, existingPatterns) ==
    /\ Len(existingPatterns) # 0
    /\ \E i \in 1..Len(paths) :
          \E j \in 1..Len(existingPatterns) : RegexTest(existingPatterns[j].pattern, paths[i])

\* arePathsCoveredByPatterns: every path is accepted by some pattern
arePathsCoveredByPatterns(paths, existingPatterns) ==
    /\ Len(existingPatterns) # 0
    /\ \A i \in 1..Len(paths) :
          \E j \in 1..Len(existingPatterns) : RegexTest(existingPatterns[j].pattern, paths[i])

\* createPatternFromGroup for a group of two paths or more: the segments of
\* the first path, those that vary over the group replaced by a matcher in
\* the pattern and by a placeholder in the template.  A segment that does not
\* vary goes into the RegExp source as it is; the paths followed hold no
\* character that the RegExp syntax gives a meaning to.
createPatternFromGroup(paths) ==
    LET segments == Segments(paths[1])
        values(i) == {Segments(paths[p])[i] : p \in 1..Len(paths)}
        samples(i) == {Segments(paths[p])[i] : p \in 1..(IF Len(paths) < 3 THEN Len(paths) ELSE 3)}
        variable(i) == Cardinality(values(i)) > 1
        matcher(i) ==
            IF \A v \in values(i) : AllDigits(v) THEN <<Digits>>
            ELSE IF \A v \in values(i) : IsUuid(v) THEN UuidAtoms
            ELSE IF \A v \in values(i) : IsObjectId(v) THEN <<Rep("hex", 24)>>
            ELSE <<NonSlash>>
        prev(i) == ToLowerCase(segments[i - 1])
        singular(word) == IF EndsWith(word, "s") THEN SubSeq(word, 1, Len(word) - 1) ELSE word
        placeholder(i) ==
            IF \A v \in samples(i) : AllDigits(v) THEN "{id}"
            ELSE IF \A v \in samples(i) : IsUuid(v) THEN "{uuid}"
            ELSE IF \A v \in samples(i) : IsObjectId(v) THEN "{id}"
            ELSE IF i > 1 /\ singular(prev(i)) \in
                        {"user", "product", "order", "item", "post", "comment", "category", "tag"}
            THEN "{" \o singular(prev(i)) \o "_id}"
            ELSE "{param}"
        RECURSIVE atoms(_)
        atoms(i) ==
            IF i > Len(segments) THEN <<>>
            ELSE (IF i > 1 THEN <<Lit("/")>> ELSE <<>>)
                 \o (IF variable(i) THEN matcher(i) ELSE <<Lit(segments[i])>>)
                 \o atoms(i + 1)
    IN PathPattern(Regex(<<Lit("/")>> \o atoms(1), TRUE, TRUE),
                   "/" \o JoinSlash([i \in 1..Len(segments) |->
                                        IF variable(i) THEN placeholder(i) ELSE segments[i]]),
                   30)

RECURSIVE InferFromGroups(_, _, _)
InferFromGroups(groups, g, existingPatterns) ==
    IF g > Len(groups) THEN <<>>
    ELSE (IF Len(groups[g].paths) < 2 THEN <<>>
          ELSE IF arePathsCoveredByPatterns(groups[g].paths, existingPatterns) THEN <<>>
          ELSE <<createPatternFromGroup(groups[g].paths)>>)
         \o InferFromGroups(groups, g + 1, existingPatterns)

\* inferPatternsFromRequests
inferPatternsFromRequests(paths, existingPatterns) ==
    IF Len(paths) < 2 THEN <<>>
    ELSE InferFromGroups(groupSimilarPaths(paths, 1, <<>>), 1, existingPatterns)

-----------------------------------------------------------------------------
(* utils/path-normalizer.ts *)

\* the segment loop of the structural match: every spec segment is either a
\* {parameter} or equal to the path segment
RECURSIVE SegmentsMatch(_, _, _)
SegmentsMatch(specSegments, pathSegments, i) ==
    IF i > Len(specSegments) THEN TRUE
    ELSE IF StartsWith(specSegments[i], "{") /\ EndsWith(specSegments[i], "}")
    THEN SegmentsMatch(specSegments, pathSegments, i + 1)
    ELSE IF specSegments[i] # pathSegments[i] THEN FALSE
    ELSE SegmentsMatch(specSegments, pathSegments, i + 1)

\* variant: the loop does not return at the first match, the last one wins
RECURSIVE StructuralMatch_Last(_, _, _)
StructuralMatch_Last(spec, pathSegments, i) ==
    IF i > Len(spec.paths) THEN Undefined
    ELSE LET specSegments == Segments(spec.paths[i].path)
             later == StructuralMatch_Last(spec, pathSegments, i + 1)
         IN IF later # Undefined THEN later
            ELSE IF Len(pathSegments) = Len(specSegments)
                    /\ SegmentsMatch(specSegments, pathSegments, 1)
            THEN spec.paths[i].path
            ELSE Undefined

\* step 1.5: the first spec path, in Object.entries order, that the path
\* matches structurally; Undefined when there is none
RECURSIVE StructuralMatch(_, _, _)
StructuralMatch(spec, pathSegments, i) ==
    IF i > Len(spec.paths) THEN Undefined
    ELSE LET specSegments == Segments(spec.paths[i].path) IN
         IF Len(pathSegments) = Len(specSegments)
            /\ SegmentsMatch(specSegments, pathSegments, 1)
         THEN spec.paths[i].path
         ELSE StructuralMatch(spec, pathSegments, i + 1)

\* variant: an unstable sort, x goes in front of entries of its own priority
RECURSIVE InsertByPriority_Unstable(_, _)
InsertByPriority_Unstable(sorted, x) ==
    IF sorted = <<>> THEN <<x>>
    ELSE IF Head(sorted).priority > x.priority
    THEN <<Head(sorted)>> \o InsertByPriority_Unstable(Tail(sorted), x)
    ELSE <<x>> \o sorted

\* one step of the stable sort: x goes behind every entry whose priority is
\* not lower than its own
RECURSIVE InsertByPriority(_, _)
InsertByPriority(sorted, x) ==
    IF sorted = <<>> THEN <<x>>
    ELSE IF Head(sorted).priority >= x.priority
    THEN <<Head(sorted)>> \o InsertByPriority(Tail(sorted), x)
    ELSE <<x>> \o sorted

\* [...customPatterns].sort((a, b) => (b.priority || 0) - (a.priority || 0))
RECURSIVE SortPatterns(_, _)
SortPatterns(pats, n) ==
    IF n = 0 THEN <<>>
    ELSE InsertByPriority(SortPatterns(pats, n - 1), pats[n])

\* step 2: the first sorted pattern with a template that accepts the path
\* gives the result; the path itself when none does
RECURSIVE TryPatterns(_, _, _)
TryPatterns(sortedPatterns, i, normalizedInputPath) ==
    IF i > Len(sortedPatterns) THEN normalizedInputPath
    ELSE LET patternObj == sortedPatterns[i] IN
         IF patternObj.template = "" THEN TryPatterns(sortedPatterns, i + 1, normalizedInputPath)
         ELSE IF RegexTest(patternObj.pattern, normalizedInputPath)
         THEN StringReplace(normalizedInputPath, patternObj.pattern, patternObj.template)
         ELSE TryPatterns(sortedPatterns, i + 1, normalizedInputPath)

\* variant: without step 1, the exact match against the document's paths
normalizePath_NoExact(path, spec, customPatterns) ==
    IF path = "" THEN ""
    ELSE LET normalizedInputPath == IF StartsWith(path, "/") THEN path ELSE "/" \o path
             structural == IF HasPaths(spec)
                           THEN StructuralMatch(spec, Segments(normalizedInputPath), 1)
                           ELSE Undefined
         IN IF structural # Undefined THEN structural
            ELSE IF Len(customPatterns) > 0
            THEN TryPatterns(SortPatterns(customPatterns, Len(customPatterns)), 1,
                             normalizedInputPath)
            ELSE normalizedInputPath

normalizePath(path, spec, customPatterns) ==
    IF path = "" THEN ""
    ELSE LET normalizedInputPath == IF StartsWith(path, "/") THEN path ELSE "/" \o path
             structural == IF HasPaths(spec)
                           THEN StructuralMatch(spec, Segments(normalizedInputPath), 1)
                           ELSE Undefined
         IN IF HasPath(spec, normalizedInputPath) THEN normalizedInputPath
            ELSE IF structural # Undefined THEN structural
            ELSE IF Len(customPatterns) > 0
            THEN TryPatterns(SortPatterns(customPatterns, Len(customPatterns)), 1,
                             normalizedInputPath)
            ELSE normalizedInputPath

-----------------------------------------------------------------------------
(* lib/axios-interceptors.ts *)

\* key.includes('{') && key.includes('}')
IsTemplateKey(key) == Includes(key, "{") /\ Includes(key, "}")

\* variant: the methods of the two keys are not compared
endpointMatchesTemplate_AnyMethod(concreteEndpoint, templateEndpoint) ==
    LET concreteSegments == Segments(SplitKey(concreteEndpoint).path)
        templateSegments == Segments(SplitKey(templateEndpoint).path)
    IN IF Len(concreteSegments) # Len(templateSegments) THEN FALSE
       ELSE SegmentsMatch(templateSegments, concreteSegments, 1)

\* endpointMatchesTemplate (the same function is repeated in file-utils.ts):
\* equal methods, equal segment counts, and every template segment a
\* {parameter} or equal to the concrete segment
endpointMatchesTemplate(concreteEndpoint, templateEndpoint) ==
    LET concrete == SplitKey(concreteEndpoint)
        template == SplitKey(templateEndpoint)
        concreteSegments == Segments(concrete.path)
        templateSegments == Segments(template.path)
    IN IF concrete.method # template.method THEN FALSE
       ELSE IF Len(concreteSegments) # Len(templateSegments) THEN FALSE
       ELSE SegmentsMatch(templateSegments, concreteSegments, 1)

\* variant: the template is added and the matching concrete keys stay
AddTemplateKey_KeepConcrete(hits, key) == SetAdd(hits, key)

\* the template branch: add the key, then delete every concrete key it matches
AddTemplateKey(hits, key) ==
    LET added == SetAdd(hits, key) IN
    SelectSeq(added, LAMBDA existingEndpoint :
        IsTemplateKey(existingEndpoint)
        \/ ~endpointMatchesTemplate(existingEndpoint, key))

\* variant: the concrete key is added without looking for a template
AddConcreteKey_Always(hits, key) == SetAdd(hits, key)

\* the concrete branch: add the key unless a template already in the set
\* matches it
AddConcreteKey(hits, key) ==
    IF \E i \in 1..Len(hits) :
          IsTemplateKey(hits[i]) /\ endpointMatchesTemplate(key, hits[i])
    THEN hits
    ELSE SetAdd(hits, key)

\* the deduplication of the request interceptor
TrackHit(hits, key) ==
    IF IsTemplateKey(key) THEN AddTemplateKey(hits, key) ELSE AddConcreteKey(hits, key)

\* `${method} ${normalizedPath}` for one intercepted call
EndpointKey(method, pathname) ==
    ToUpperCase(IF method = "" THEN "GET" ELSE method) \o " "
        \o normalizePath(pathname, apiSpec, patterns)

\* An error map is the sequence of its entries in key order, each
\* [endpoint, count, statusCodes, lastError]; statusCodes maps a status to
\* its count (integer-like keys, which JavaScript keeps in ascending order).
ErrorRecord(endpoint, count, statusCodes, lastError) ==
    [endpoint |-> endpoint, count |-> count, statusCodes |-> statusCodes,
     lastError |-> lastError]

NoCodes == [c \in {} |-> 0]

ErrorKeys(errors) == [i \in 1..Len(errors) |-> errors[i].endpoint]

HasErrorKey(errors, key) == key \in SeqToSet(ErrorKeys(errors))

ErrorIndex(errors, key) == CHOOSE i \in 1..Len(errors) : errors[i].endpoint = key

\* variant: the histogram entry is set to n instead of being raised by n
AddCode_Reset(statusCodes, status, n) ==
    [c \in DOMAIN statusCodes \cup {status} |->
        IF c = status THEN n ELSE statusCodes[c]]

\* (statusCodes[status] || 0) + n
AddCode(statusCodes, status, n) ==
    [c \in DOMAIN statusCodes \cup {status} |->
        (IF c \in DOMAIN statusCodes THEN statusCodes[c] ELSE 0)
        + (IF c = status THEN n ELSE 0)]

\* the key the error is booked under: the first template key of the map that
\* matches a concrete key, else the key itself
TemplateKeyFor(errors, key) ==
    LET matching == {i \in 1..Len(errors) :
                        /\ IsTemplateKey(errors[i].endpoint)
                        /\ endpointMatchesTemplate(key, errors[i].endpoint)}
    IN IF ~Includes(key, "{") /\ ~Includes(key, "}") /\ matching # {}
       THEN errors[CHOOSE i \in matching : \A j \in matching : i <= j].endpoint
       ELSE key

\* variant: every error response is recorded
IsServerError_AnyStatus(status) == status >= 400

\* status >= 500 && status < 600
IsServerError(status) == status >= 500 /\ status < 600

\* the bookkeeping of the response error interceptor for one 5xx response
RecordError(errors, key, status, message) ==
    LET templateKey == TemplateKeyFor(errors, key)
        initialized == IF HasErrorKey(errors, templateKey) THEN errors
                       ELSE Append(errors, ErrorRecord(templateKey, 0, NoCodes, Undefined))
        k == ErrorIndex(initialized, templateKey)
    IN [initialized EXCEPT
          ![k].count = @ + 1,
          ![k].statusCodes = AddCode(@, status, 1),
          ![k].lastError = IF message # "" THEN message ELSE @]

\* An axios request config is [url, method], url Undefined when the config
\* has none and method "" when it has none.
RequestConfig(method, url) == [url |-> url, method |-> method]

\* new URL(url), and new URL(url, 'http://localhost') when that throws: the
\* pathname of the URL, Undefined when both throw (an absolute URL without a
\* host).  The query is no part of the pathname.
UrlPathname(url) ==
    LET absolute == StartsWith(url, "http://")
        rest == IF absolute THEN SubSeq(url, 8, Len(url)) ELSE url
        slash == IndexFrom(rest, "/", 1)
        host == IF ~absolute THEN "localhost"
                ELSE IF slash = 0 THEN rest ELSE SubSeq(rest, 1, slash - 1)
        raw == IF ~absolute THEN rest
               ELSE IF slash = 0 THEN "" ELSE SubSeq(rest, slash, Len(rest))
        query == IndexFrom(raw, "?", 1)
        path == IF query = 0 THEN raw ELSE SubSeq(raw, 1, query - 1)
    IN IF host = "" THEN Undefined
       ELSE IF StartsWith(path, "/") THEN path ELSE "/" \o path

\* How the last interceptor call completed: of is "request" or "response",
\* kind is "return", "reject" or "throw", and same tells whether the value
\* returned or rejected with is the object the call was given.
Completion(of, kind, same) == [of |-> of, kind |-> kind, same |-> same]

NoCall == Completion("none", "none", TRUE)

\* variant: a try block without its catch
TryCatch_Rethrow(body) == body

\* try { body } catch (err) { log.error(...) }: body is "normal", "return" or
\* "throw"; what the block throws ends in the handler, which only logs
TryCatch(body) == IF body = "throw" THEN "normal" ELSE body

\* the request interceptor: return config inside the try block when the URL
\* is missing, a throw of new URL inside it, and return config behind it
RequestCompletion(config) ==
    LET body == IF config.url = Undefined \/ config.url = "" THEN "return"
                ELSE IF UrlPathname(config.url) = Undefined THEN "throw"
                ELSE "normal"
        block == TryCatch(body)
    IN Completion("request", IF block = "throw" THEN "throw" ELSE "return",
                  block # "throw")

\* the response error interceptor: config.url of a response that carries no
\* config throws inside the try block; Promise.reject(error) behind it
ResponseCompletion(pathname, status) ==
    LET body == IF status # 0 /\ IsServerError(status) /\ pathname = Undefined
                THEN "throw" ELSE "normal"
        block == TryCatch(body)
    IN Completion("response", IF block = "throw" THEN "throw" ELSE "reject",
                  block # "throw")

-----------------------------------------------------------------------------
(* utils/file-utils.ts *)

\* A file is [exists, shape, data]: shape is "array" or "object" for a file
\* holding the JSON of an array or of an object with the entries data, and
\* "text" for a file whose content JSON.parse rejects (empty, cut short, not
\* JSON).
FileOf(shape, data) == [exists |-> TRUE, shape |-> shape, data |-> data]
NoFile == [exists |-> FALSE, shape |-> "text", data |-> <<>>]

\* the methods of the endpoints that have a path, in order of first appearance
RECURSIVE MethodsInOrder(_, _, _)
MethodsInOrder(endpoints, i, acc) ==
    IF i > Len(endpoints) THEN acc
    ELSE LET e == SplitKey(endpoints[i]) IN
         MethodsInOrder(endpoints, i + 1,
            IF e.path = Undefined \/ e.path = "" THEN acc ELSE SetAdd(acc, e.method))

\* variant: only the templates of a method group are written
DedupGroup_TemplatesOnly(methodEndpoints) == SelectSeq(methodEndpoints, IsTemplateKey)

\* the second pass over one method group: its templates, then the concrete
\* endpoints no template of the group matches
DedupGroup(methodEndpoints) ==
    LET templateEndpoints == SelectSeq(methodEndpoints, IsTemplateKey)
        handled(e) == /\ ~IsTemplateKey(e)
                      /\ \E i \in 1..Len(templateEndpoints) :
                            endpointMatchesTemplate(e, templateEndpoints[i])
    IN templateEndpoints
       \o SelectSeq(methodEndpoints, LAMBDA e :
             ~handled(e) /\ ~Includes(e, "{") /\ ~Includes(e, "}"))

RECURSIVE DedupGroups(_, _, _)
DedupGroups(endpoints, methods, m) ==
    IF m > Len(methods) THEN <<>>
    ELSE LET group == SelectSeq(endpoints, LAMBDA e :
                         LET k == SplitKey(e) IN
                         k.path # Undefined /\ k.path # "" /\ k.method = methods[m])
         IN DedupGroup(group) \o DedupGroups(endpoints, methods, m + 1)

\* saveHitEndpoints: the array written to the worker's hit file
saveHitEndpoints(endpoints) ==
    FileOf("array", DedupGroups(endpoints, MethodsInOrder(endpoints, 1, <<>>), 1))

\* saveErrors: the object written to the worker's error file, the template
\* keys first, then the concrete keys no template key matches
saveErrors(errors) ==
    LET templates == SelectSeq(errors, LAMBDA r : IsTemplateKey(r.endpoint))
        hasMatchingTemplate(r) ==
            \E i \in 1..Len(templates) :
                endpointMatchesTemplate(r.endpoint, templates[i].endpoint)
    IN FileOf("object",
              templates
              \o SelectSeq(errors, LAMBDA r :
                    ~IsTemplateKey(r.endpoint) /\ ~hasMatchingTemplate(r)))

-----------------------------------------------------------------------------
(* lib/endpoint-collector.ts *)

\* adding every element of b to the Set a
RECURSIVE AddAll(_, _)
AddAll(a, b) == IF b = <<>> THEN a ELSE AddAll(SetAdd(a, Head(b)), Tail(b))

\* [...new Set(a)]
Dedupe(a) == AddAll(<<>>, a)

\* /\/[0-9a-f]{24}(?:\/|$)/g
ObjectIdSegment ==
    Regex(<<Lit("/"), Rep("hex", 24), Alt(<< <<Lit("/")>>, <<Eos>> >>)>>, FALSE, FALSE)

\* `${method} ${path.replace(/\/[0-9a-f]{24}(?:\/|$)/g, '/{id}/')}`
ObjectIdStructureKey(endpoint) ==
    LET e == SplitKey(endpoint) IN
    e.method \o " " \o StringReplaceAll(e.path, ObjectIdSegment, "/{id}/", 1)

\* the content of the files of a directory listing: a file that is missing,
\* that JSON.parse rejects (the catch of the loop) or whose JSON has not the
\* shape looked for contributes nothing
RECURSIVE ReadFiles(_, _, _)
ReadFiles(files, order, shape) ==
    IF order = <<>> THEN <<>>
    ELSE (IF files[Head(order)].exists /\ files[Head(order)].shape = shape
          THEN <<files[Head(order)].data>> ELSE <<>>)
         \o ReadFiles(files, Tail(order), shape)

RECURSIVE UnionAll(_, _)
UnionAll(all, contents) ==
    IF contents = <<>> THEN all
    ELSE UnionAll(AddAll(all, Head(contents)), Tail(contents))

\* one group of endpointsByPath: its templates if it has any, else all of it
PreferTemplates(endpoints) ==
    IF \E i \in 1..Len(endpoints) : IsTemplateKey(endpoints[i])
    THEN SelectSeq(endpoints, IsTemplateKey)
    ELSE endpoints

RECURSIVE CollectGroups(_, _, _)
CollectGroups(all, keys, g) ==
    IF g > Len(keys) THEN <<>>
    ELSE PreferTemplates(SelectSeq(all, LAMBDA e : ObjectIdStructureKey(e) = keys[g]))
         \o CollectGroups(all, keys, g + 1)

\* getAllHitEndpoints: the worker's hit set and the content of every
\* endpoints-*.json file, grouped by structure key, templates preferred
getAllHitEndpoints(hits, contents) ==
    LET allHitEndpoints == UnionAll(AddAll(<<>>, hits), contents)
        keys == Dedupe([i \in 1..Len(allHitEndpoints) |->
                            ObjectIdStructureKey(allHitEndpoints[i])])
    IN Dedupe(CollectGroups(allHitEndpoints, keys, 1))

\* variant: the histogram read from the file replaces the one held
MergeCodes_Replace(target, source) == source

\* adding the histogram source into the histogram target
MergeCodes(target, source) ==
    [c \in DOMAIN target \cup DOMAIN source |->
        (IF c \in DOMAIN target THEN target[c] ELSE 0)
        + (IF c \in DOMAIN source THEN source[c] ELSE 0)]

\* merging one entry of an error file into allServerErrors
MergeRecord(all, record) ==
    LET initialized == IF HasErrorKey(all, record.endpoint) THEN all
                       ELSE Append(all, ErrorRecord(record.endpoint, 0, NoCodes, Undefined))
        k == ErrorIndex(initialized, record.endpoint)
    IN [initialized EXCEPT
          ![k].count = @ + record.count,
          ![k].statusCodes = MergeCodes(@, record.statusCodes),
          ![k].lastError = IF record.lastError # Undefined /\ record.lastError # ""
                           THEN record.lastError ELSE @]

RECURSIVE MergeFile(_, _)
MergeFile(all, fileErrors) ==
    IF fileErrors = <<>> THEN all
    ELSE MergeFile(MergeRecord(all, Head(fileErrors)), Tail(fileErrors))

RECURSIVE MergeFiles(_, _)
MergeFiles(all, contents) ==
    IF contents = <<>> THEN all
    ELSE MergeFiles(MergeFile(all, Head(contents)), Tail(contents))

\* getAllServerErrors: the worker's error map, then every errors-*.json file
\* of the directory merged into it
getAllServerErrors(errors, contents) == MergeFiles(errors, contents)

\* The copy { ...record } made of each in-memory record is shallow: its
\* statusCodes is the object of the in-memory record, so what the merge adds
\* to the histogram of a key the worker holds is added in the worker's map too.
ErrorsAfterMerge(errors, contents) ==
    LET all == getAllServerErrors(errors, contents) IN
    [i \in 1..Len(errors) |->
        [errors[i] EXCEPT !.statusCodes = all[i].statusCodes]]

-----------------------------------------------------------------------------
(* lib/report-generator.ts *)

\* an entry of the endpoint pattern file: { pattern, replace }
EndpointPattern(pattern, replace) == [pattern |-> pattern, replace |-> replace]

\* /\{[^}]+\}/g
ParamPlaceholder == Regex(<<Lit("{"), Plus("notclose"), Lit("}")>>, FALSE, FALSE)

\* /\/+/g
Slashes == Regex(<<Plus("slash")>>, FALSE, FALSE)

\* variant: the structure key is built from the path alone
StructureKey_PathOnly(method, path) ==
    StringReplaceAll(path, ParamPlaceholder, "{PARAM}", 1)

\* `${method} ${path.replace(/\{[^}]+\}/g, '{PARAM}')}`
StructureKey(method, path) ==
    method \o " " \o StringReplaceAll(path, ParamPlaceholder, "{PARAM}", 1)

\* A Map is the sequence of its entries [key, value] in insertion order.
MapHas(map, key) == \E i \in 1..Len(map) : map[i].key = key
MapGet(map, key) == map[CHOOSE i \in 1..Len(map) : map[i].key = key].value
MapSet(map, key, value) ==
    IF MapHas(map, key)
    THEN [i \in 1..Len(map) |->
            IF map[i].key = key THEN [key |-> key, value |-> value] ELSE map[i]]
    ELSE Append(map, [key |-> key, value |-> value])
MapValues(map) == [i \in 1..Len(map) |-> map[i].value]

Malformed(s) == Includes(s, "}{") \/ Includes(s, "}}") \/ Includes(s, "{{")

\* the patterns of the file applied in sequence to one path
RECURSIVE ApplyPatterns(_, _, _)
ApplyPatterns(normalizedPath, endpointPatterns, i) ==
    IF i > Len(endpointPatterns) THEN normalizedPath
    ELSE ApplyPatterns(
            IF RegexTest(endpointPatterns[i].pattern, normalizedPath)
            THEN StringReplaceAll(
                    StringReplace(normalizedPath, endpointPatterns[i].pattern,
                                  "{" \o endpointPatterns[i].replace \o "}"),
                    Slashes, "/", 1)
            ELSE normalizedPath,
            endpointPatterns, i + 1)

\* templated endpoints always take the slot of their structure key, concrete
\* ones only a free slot
DedupByStructure(map, endpoint) ==
    LET e == SplitKey(endpoint)
        structureKey == StructureKey(e.method, e.path)
    IN IF IsTemplateKey(endpoint) THEN MapSet(map, structureKey, endpoint)
       ELSE IF ~MapHas(map, structureKey) THEN MapSet(map, structureKey, endpoint)
       ELSE map

\* variant: the result of the substitutions is taken as it is
RECURSIVE NormalizeInto_NoCheck(_, _, _, _)
NormalizeInto_NoCheck(map, endpoints, endpointPatterns, i) ==
    IF i > Len(endpoints) THEN map
    ELSE LET e == SplitKey(endpoints[i])
             normalizedPath == ApplyPatterns(e.path, endpointPatterns, 1)
         IN NormalizeInto_NoCheck(
               IF Malformed(endpoints[i]) \/ e.path = Undefined \/ e.path = "" THEN map
               ELSE DedupByStructure(map, e.method \o " " \o normalizedPath),
               endpoints, endpointPatterns, i + 1)

RECURSIVE NormalizeInto(_, _, _, _)
NormalizeInto(map, endpoints, endpointPatterns, i) ==
    IF i > Len(endpoints) THEN map
    ELSE LET e == SplitKey(endpoints[i])
             applied == ApplyPatterns(e.path, endpointPatterns, 1)
             normalizedPath == IF Malformed(applied) THEN e.path ELSE applied
         IN NormalizeInto(
               IF Malformed(endpoints[i]) \/ e.path = Undefined \/ e.path = "" THEN map
               ELSE DedupByStructure(map, e.method \o " " \o normalizedPath),
               endpoints, endpointPatterns, i + 1)

\* normalizeEndpoints
normalizeEndpoints(endpoints, endpointPatterns) ==
    IF Len(endpointPatterns) = 0 THEN endpoints
    ELSE MapValues(NormalizeInto(<<>>, endpoints, endpointPatterns, 1))

\* parseFloat(((tested / total) * 100).toFixed(2)), in hundredths; toFixed
\* rounds to nearest, and a tie needs a total that is a multiple of 32
Percentage(tested, total) ==
    IF total > 0 THEN (20000 * tested + total) \div (2 * total) ELSE 0

ReportMethods == <<"GET", "POST", "PUT", "DELETE", "PATCH", "OPTIONS", "HEAD">>

\* generateMethodCoverage
generateMethodCoverage(specEndpoints, tested) ==
    [m \in 1..Len(ReportMethods) |->
        LET ofMethod == SelectSeq(specEndpoints, LAMBDA e :
                            Split(e, " ")[1] = ReportMethods[m])
            total == Len(ofMethod)
            hit == Len(SelectSeq(ofMethod, LAMBDA e : e \in SeqToSet(tested)))
        IN [method |-> ReportMethods[m], total |-> total, tested |-> hit,
            percentage |-> Percentage(hit, total)]]

RECURSIVE SumCounts(_)
SumCounts(records) ==
    IF records = <<>> THEN 0 ELSE Head(records).count + SumCounts(Tail(records))

RECURSIVE SumCodes(_)
SumCodes(records) ==
    IF records = <<>> THEN NoCodes
    ELSE MergeCodes(SumCodes(Tail(records)), Head(records).statusCodes)

\* the merged record of one structure group, under its templated endpoint if
\* it has one, else under its first endpoint
MergeGroup(records) ==
    LET templated == SelectSeq(records, LAMBDA r : IsTemplateKey(r.endpoint))
        targetEndpoint == IF templated # <<>> THEN templated[1].endpoint
                          ELSE records[1].endpoint
    IN ErrorRecord(targetEndpoint, SumCounts(records), SumCodes(records),
                   IF records[1].lastError = Undefined THEN "" ELSE records[1].lastError)

\* normalizedErrors of generateServerErrorStats
NormalizedErrors(allServerErrors) ==
    LET keys == Dedupe([i \in 1..Len(allServerErrors) |->
                            ObjectIdStructureKey(allServerErrors[i].endpoint)])
    IN [g \in 1..Len(keys) |->
          MergeGroup(SelectSeq(allServerErrors, LAMBDA r :
                        ObjectIdStructureKey(r.endpoint) = keys[g]))]

\* generateServerErrorStats
generateServerErrorStats(allServerErrors) ==
    LET normalizedErrors == NormalizedErrors(allServerErrors) IN
    [totalServerErrors |-> SumCounts(normalizedErrors),
     statusCodeCounts  |-> SumCodes(normalizedErrors),
     errorsByEndpoint  |-> [i \in 1..Len(normalizedErrors) |->
                              [endpoint |-> normalizedErrors[i].endpoint,
                               count |-> normalizedErrors[i].count]]]

\* specEndpointsStructures: structure key -> spec endpoint, a later spec
\* endpoint of the same structure replacing an earlier one
RECURSIVE SpecStructures(_, _, _)
SpecStructures(map, specEndpoints, i) ==
    IF i > Len(specEndpoints) THEN map
    ELSE LET e == SplitKey(specEndpoints[i]) IN
         SpecStructures(MapSet(map, StructureKey(e.method, e.path), specEndpoints[i]),
                        specEndpoints, i + 1)

HitStructureKey(endpoint) ==
    LET e == SplitKey(endpoint) IN StructureKey(e.method, e.path)

\* the hit endpoints outside the spec that have the structure of a spec
\* endpoint, as the spec endpoints they stand for
AdditionalTested(specEndpoints, hits) ==
    LET structures == SpecStructures(<<>>, specEndpoints, 1)
        outside == SelectSeq(hits, LAMBDA e :
                      e \notin SeqToSet(specEndpoints)
                      /\ MapHas(structures, HitStructureKey(e)))
    IN [i \in 1..Len(outside) |-> MapGet(structures, HitStructureKey(outside[i]))]

\* variant: only the templated hit endpoints are kept as extra
RealExtraEndpoints_TemplatesOnly(specEndpoints, hits) ==
    SelectSeq(hits, LAMBDA e : IsTemplateKey(e) /\ e \notin SeqToSet(specEndpoints))

\* the hit endpoints outside the spec with the structure of no spec endpoint
RealExtraEndpoints(specEndpoints, hits) ==
    LET structures == SpecStructures(<<>>, specEndpoints, 1) IN
    SelectSeq(hits, LAMBDA e :
        e \notin SeqToSet(specEndpoints) /\ ~MapHas(structures, HitStructureKey(e)))

\* variant: the two lists are concatenated without going through a Set
AllTested_NoSet(tested, additionalTested) == tested \o additionalTested

\* [...new Set([...tested, ...additionalTested])]
AllTested(tested, additionalTested) == Dedupe(tested \o additionalTested)

\* [...specEndpoints].filter((e) => !allTested.includes(e))
AllUntested(specEndpoints, tested, allTested) ==
    SelectSeq(specEndpoints, LAMBDA e : e \notin SeqToSet(allTested))

RECURSIVE ExtraByStructure(_, _, _)
ExtraByStructure(map, endpoints, i) ==
    IF i > Len(endpoints) THEN map
    ELSE ExtraByStructure(DedupByStructure(map, endpoints[i]), endpoints, i + 1)

\* generateCoverageReport: the report object written to outputPath
generateCoverageReport(specEndpoints, hits, allServerErrors, endpointPatterns) ==
    LET normalizedHitEndpoints ==
            IF Len(endpointPatterns) > 0 THEN normalizeEndpoints(hits, endpointPatterns)
            ELSE hits
        tested == SelectSeq(specEndpoints, LAMBDA e :
                      e \in SeqToSet(normalizedHitEndpoints))
        additionalTested == AdditionalTested(specEndpoints, normalizedHitEndpoints)
        allTested == AllTested(tested, additionalTested)
        allUntested == AllUntested(specEndpoints, tested, allTested)
        dedupedExtraEndpoints ==
            MapValues(ExtraByStructure(<<>>,
                RealExtraEndpoints(specEndpoints, normalizedHitEndpoints), 1))
    IN [exists |-> TRUE,
        summary |-> [totalEndpoints |-> Len(specEndpoints),
                     testedEndpoints |-> Len(allTested),
                     untestedEndpoints |-> Len(allUntested),
                     coveragePercentage |-> Percentage(Len(allTested), Len(specEndpoints))],
        methodCoverage |-> generateMethodCoverage(specEndpoints, allTested),
        serverErrorStats |-> generateServerErrorStats(allServerErrors),
        endpoints |-> [tested |-> allTested, untested |-> allUntested],
        extraEndpoints |-> dedupedExtraEndpoints,
        serverErrors |-> allServerErrors]

-----------------------------------------------------------------------------
(* Documents, custom patterns and paths the model runs on *)

\* the document of the unit tests: GET/POST /users, GET/PUT/DELETE /users/{id}
UsersSpec ==
    Document(<<PathItem("/users", <<>>, <<Op("get", <<>>), Op("post", <<>>)>>),
               PathItem("/users/{id}", <<>>,
                        <<Op("get", <<Param("id", Schema("integer", "", <<>>, <<>>))>>),
                          Op("put", <<>>), Op("delete", <<>>)>>)>>,
             <<>>)

\* a literal path behind a template of the same shape, two templates that
\* overlap, and a placeholder that is only part of a segment
MixedSpec ==
    Document(<<PathItem("/users/{id}", <<>>,
                        <<Op("get", <<Param("id", Schema("string", "", <<>>, <<>>))>>)>>),
               PathItem("/users/me", <<>>, <<Op("get", <<>>)>>),
               PathItem("/{kind}/me", <<>>, <<Op("get", <<>>)>>),
               PathItem("/v{ver}/users", <<>>, <<Op("get", <<>>)>>)>>,
             <<>>)

SpecDocs == {NoSpec, UsersSpec, MixedSpec}

\* a literal path declared for another method than the template of its shape
ProfileSpec ==
    Document(<<PathItem("/users/{id}", <<>>,
                        <<Op("get", <<Param("id", Schema("string", "", <<>>, <<>>))>>)>>),
               PathItem("/users/me", <<>>, <<Op("post", <<>>)>>)>>,
             <<>>)

\* a document that declares a TRACE operation, and a template with some of
\* the methods only
TraceSpec ==
    Document(<<PathItem("/users", <<>>, <<Op("get", <<>>), Op("trace", <<>>)>>),
               PathItem("/users/{id}", <<>>,
                        <<Op("get", <<Param("id", Schema("integer", "", <<>>, <<>>))>>),
                          Op("put", <<>>)>>)>>,
             <<>>)

\* { "$ref": "#/components/parameters/<name>" } that also carries a name
NamedRefParam(name, ref) == [name |-> name, schema |-> NoSchema, ref |-> ref]

\* a document with one path that has one get operation
OnePathDoc(path, pathParameters, operationParameters, components) ==
    Document(<<PathItem(path, pathParameters, <<Op("get", operationParameters)>>)>>,
             components)

\* components.parameters with one entry: an integer path parameter named id
IntegerIdComponents == [UserId |-> Param("id", Schema("integer", "", <<>>, <<>>))]

\* Documents whose path parameter is declared in the ways the pattern
\* generation tells apart, one way per document.
ParamDocs ==
    { \* a reference object at path level and at operation level
      OnePathDoc("/users/{id}", <<RefParam("#/components/parameters/UserId")>>, <<>>,
                 IntegerIdComponents),
      OnePathDoc("/users/{id}", <<>>, <<RefParam("#/components/parameters/UserId")>>,
                 IntegerIdComponents),
      \* a reference that carries the name, and one to a missing component
      OnePathDoc("/users/{id}", <<NamedRefParam("id", "#/components/parameters/UserId")>>,
                 <<>>, IntegerIdComponents),
      OnePathDoc("/users/{id}", <<NamedRefParam("id", "#/components/parameters/Gone")>>,
                 <<>>, IntegerIdComponents),
      \* schema.pattern u\d+ beside an enum and a type
      OnePathDoc("/users/{id}",
                 <<Param("id", Schema("integer", "", <<Lit("u"), Digits>>, <<"7", "x">>))>>,
                 <<>>, <<>>),
      \* an enum beside a numeric type
      OnePathDoc("/users/{id}", <<Param("id", Schema("integer", "", <<>>, <<"7", "x">>))>>,
                 <<>>, <<>>),
      \* a numeric type beside a format
      OnePathDoc("/users/{id}", <<>>, <<Param("id", Schema("number", "uuid", <<>>, <<>>))>>,
                 <<>>),
      \* the formats, on a string whose name contains id
      OnePathDoc("/users/{id}", <<Param("id", Schema("string", "uuid", <<>>, <<>>))>>,
                 <<>>, <<>>),
      OnePathDoc("/users/{id}", <<Param("id", Schema("string", "date", <<>>, <<>>))>>,
                 <<>>, <<>>),
      OnePathDoc("/users/{id}", <<Param("id", Schema("string", "date-time", <<>>, <<>>))>>,
                 <<>>, <<>>),
      \* a string named userId, a string named name
      OnePathDoc("/users/{userId}", <<Param("userId", Schema("string", "", <<>>, <<>>))>>,
                 <<>>, <<>>),
      OnePathDoc("/users/{name}", <<Param("name", Schema("string", "", <<>>, <<>>))>>,
                 <<>>, <<>>),
      \* id with a schema that gives no type, and id that is not declared
      OnePathDoc("/users/{id}", <<Param("id", Schema("", "", <<>>, <<>>))>>, <<>>, <<>>),
      OnePathDoc("/users/{id}", <<>>, <<>>, <<>>),
      \* no placeholder
      OnePathDoc("/users/me", <<>>, <<>>, <<>>) }

\* the paths the generated patterns are tested on
ProbePaths ==
    { "/users", "/users/7", "/users/42", "/users/x", "/users/u7", "/users/me",
      "/users/a/b", "/users/42/",
      "/users/507f1f77bcf86cd799439011",
      "/users/123e4567-e89b-12d3-a456-426614174000",
      "/users/2024-01-31", "/users/2024-01-31T10:20:30Z",
      "/users/2024-01-31T10:20:30.5+01:00" }

\* new RegExp('/users/\\d+') -> '/users/{userId}', as in the README
UsersPattern ==
    PathPattern(Regex(<<Lit("/users/"), Digits>>, FALSE, FALSE), "/users/{userId}", 100)

\* /^\/v\d+\/users$/ -> '/v{n}/users'
VersionPattern ==
    PathPattern(Regex(<<Lit("/v"), Digits, Lit("/users")>>, TRUE, TRUE), "/v{n}/users", 100)

\* /\/\d+/ -> '/{id}'
NumberPattern ==
    PathPattern(Regex(<<Lit("/"), Digits>>, FALSE, FALSE), "/{id}", 100)

\* /^\/items\/[^/]+$/ -> '/items/{item}', no priority given
ItemPattern ==
    PathPattern(Regex(<<Lit("/items/"), NonSlash>>, TRUE, TRUE), "/items/{item}", 0)

\* /^\/items\/\d+$/ -> '/items/{itemId}'
ItemNumberPattern ==
    PathPattern(Regex(<<Lit("/items/"), Digits>>, TRUE, TRUE), "/items/{itemId}", 100)

\* /^\/me$/ -> '/users/me', an alias of a declared path
MePattern ==
    PathPattern(Regex(<<Lit("/me")>>, TRUE, TRUE), "/users/me", 100)

\* an entry without a template
BrokenPattern ==
    PathPattern(Regex(<<Lit("/items/"), NonSlash>>, TRUE, TRUE), "", 100)

CustomPatternLists ==
    { <<>>,
      <<UsersPattern, VersionPattern, MePattern>>,
      <<ItemPattern, BrokenPattern, ItemNumberPattern, NumberPattern>> }

InputPaths ==
    { "", "/", "users", "/users", "/users/42", "/users/42/", "/users/me", "/users/me/",
      "/users/{id}", "/me", "/v2/users", "/items/7", "/items/7/parts/9", "/items/abc",
      "/api/users/42" }

\* the service hands normalizePath its custom patterns followed by the
\* patterns generated from the document
MergedPatterns(custom, spec) == custom \o generatePathPatterns(spec)

ConfigInit ==
    /\ apiSpec \in SpecDocs
    /\ \E custom \in CustomPatternLists : patterns = MergedPatterns(custom, apiSpec)
    /\ endpointPatternFile = <<>>

-----------------------------------------------------------------------------
(* Harness for normalizePath: one input path, normalized and then           *)
(* normalized again.                                                        *)

Workers == {"w1", "w2"}

\* the statuses of the error responses; 0 stands for an error that has no
\* response (a timeout, a network failure)
Statuses == {0, 404, 500, 503}

NoReport == [exists |-> FALSE]

WorkersIdle ==
    /\ pc = [w \in Workers |-> "idle"]
    /\ hitEndpoints = [w \in Workers |-> <<>>]
    /\ endpointErrors = [w \in Workers |-> <<>>]
    /\ hitFile = [w \in Workers |-> NoFile]
    /\ errFile = [w \in Workers |-> NoFile]
    /\ report = NoReport
    /\ requests = [w \in Workers |-> [keys |-> {}, n |-> 0]]
    /\ responses = [status \in Statuses |-> 0]
    /\ completion = NoCall

workerVars == <<pc, hitEndpoints, endpointErrors, hitFile, errFile, report,
                requests, responses, completion>>

\* no pattern has been tested, no path recorded, no endpoint list normalized
NoProbe == [path |-> Undefined, accepts |-> <<>>]
NothingLearned == [paths |-> <<>>, inferred |-> <<>>, done |-> FALSE]
NothingNormalized == [input |-> <<>>, output |-> <<>>, done |-> FALSE]

FnIdle ==
    /\ probe = NoProbe
    /\ learned = NothingLearned
    /\ normalized = NothingNormalized

fnVars == <<probe, learned, normalized>>

InitNormalize ==
    /\ ConfigInit
    /\ WorkersIdle
    /\ FnIdle
    /\ nPath \in InputPaths
    /\ nOut = <<>>
    /\ nPhase = 0

Normalize ==
    /\ nPhase = 0
    /\ nOut' = <<normalizePath(nPath, apiSpec, patterns)>>
    /\ nPhase' = 1
    /\ UNCHANGED <<apiSpec, patterns, endpointPatternFile, nPath, workerVars, fnVars>>

Renormalize ==
    /\ nPhase = 1
    /\ nOut' = Append(nOut, normalizePath(nOut[1], apiSpec, patterns))
    /\ nPhase' = 2
    /\ UNCHANGED <<apiSpec, patterns, endpointPatternFile, nPath, workerVars, fnVars>>

NextNormalize == Normalize \/ Renormalize

SpecNormalize == InitNormalize /\ [][NextNormalize]_vars

-----------------------------------------------------------------------------
(* Harness for generatePathPatterns: the patterns generated from one       *)
(* document are tested on one path.                                        *)

InitGenerate ==
    /\ apiSpec \in ParamDocs \cup {UsersSpec, MixedSpec}
    /\ patterns = generatePathPatterns(apiSpec)
    /\ endpointPatternFile = <<>>
    /\ WorkersIdle
    /\ FnIdle
    /\ nPath = ""
    /\ nOut = <<>>
    /\ nPhase = 0

\* pattern.test(path) for every pattern of the list
TestPatterns(path) ==
    /\ probe' = [path |-> path,
                 accepts |-> [i \in 1..Len(patterns) |->
                                 RegexTest(patterns[i].pattern, path)]]
    /\ UNCHANGED <<apiSpec, patterns, endpointPatternFile, workerVars,
                   nPath, nOut, nPhase, learned, normalized>>

NextGenerate == \E path \in ProbePaths : TestPatterns(path)

SpecGenerate == InitGenerate /\ [][NextGenerate]_vars

-----------------------------------------------------------------------------
(* Harness for inferPatternsFromRequests: raw paths are recorded, and the   *)
(* patterns are inferred from them beside the patterns already known.       *)

\* /^\/users\/1$/ -> '/users/first'
FirstUserPattern ==
    PathPattern(Regex(<<Lit("/users/1")>>, TRUE, TRUE), "/users/first", 100)

KnownPatternLists == { <<>>, <<UsersPattern>>, <<FirstUserPattern>> }

RawPaths == { "/users/1", "/users/2", "/users/me", "/docs/a_b", "/docs/c-d", "/" }

InitInfer ==
    /\ apiSpec = NoSpec
    /\ patterns \in KnownPatternLists
    /\ endpointPatternFile = <<>>
    /\ WorkersIdle
    /\ FnIdle
    /\ nPath = ""
    /\ nOut = <<>>
    /\ nPhase = 0

\* recordPathCallback(fullUrl.pathname)
RecordPath(path) ==
    /\ ~learned.done
    /\ Len(learned.paths) < MaxPaths
    /\ learned' = [learned EXCEPT !.paths = Append(@, path)]
    /\ UNCHANGED <<apiSpec, patterns, endpointPatternFile, workerVars,
                   nPath, nOut, nPhase, probe, normalized>>

InferPatterns ==
    /\ ~learned.done
    /\ learned' = [learned EXCEPT !.inferred = inferPatternsFromRequests(learned.paths, patterns),
                                  !.done = TRUE]
    /\ UNCHANGED <<apiSpec, patterns, endpointPatternFile, workerVars,
                   nPath, nOut, nPhase, probe, normalized>>

NextInfer ==
    \/ \E path \in RawPaths : RecordPath(path)
    \/ InferPatterns

SpecInfer == InitInfer /\ [][NextInfer]_vars

-----------------------------------------------------------------------------
(* The workers.  Each worker is one process running the service: it starts, *)
(* its axios interceptors observe requests and error responses, and its     *)
(* after hook aggregates what the directory holds into the report.  The     *)
(* interceptors are given no recordPathCallback.                             *)

\* /^\/u\/\d+$/ -> '/users/{uid}': a second name for the users resource
AliasPattern ==
    PathPattern(Regex(<<Lit("/u/"), Digits>>, TRUE, TRUE), "/users/{uid}", 100)

\* { "pattern": "\\d+", "replace": "id" }
NumberEndpointPattern == EndpointPattern(Regex(<<Digits>>, FALSE, FALSE), "id")

Deployment(spec, custom, filePatterns) ==
    [spec |-> spec, custom |-> custom, filePatterns |-> filePatterns]

Deployments ==
    { Deployment(UsersSpec, <<AliasPattern>>, <<>>),
      Deployment(MixedSpec, <<>>, <<>>),
      Deployment(ProfileSpec, <<>>, <<>>),
      Deployment(NoSpec, <<UsersPattern>>, <<NumberEndpointPattern>>) }

\* { "pattern": "/\\d+", "replace": "id" }
SlashNumberEndpointPattern ==
    EndpointPattern(Regex(<<Lit("/"), Digits>>, FALSE, FALSE), "id")

\* Harness for normalizeEndpoints: a list of endpoints is built and handed
\* to normalizeEndpoints with the entries of a pattern file.
PatternFiles ==
    { <<SlashNumberEndpointPattern>>,
      <<NumberEndpointPattern, SlashNumberEndpointPattern>> }

EndpointInputs ==
    { "GET /users/42", "GET /users/42/5", "GET /users/{userId}/5", "GET /users/{id}/5",
      "GET /users/{userId}/posts/6", "GET /users/{a}{b}", "GETusers" }

InitEndpoints ==
    /\ apiSpec = NoSpec
    /\ patterns = <<>>
    /\ endpointPatternFile \in PatternFiles
    /\ WorkersIdle
    /\ FnIdle
    /\ nPath = ""
    /\ nOut = <<>>
    /\ nPhase = 0

\* one more endpoint in the list of the hit endpoints
AddEndpoint(endpoint) ==
    /\ ~normalized.done
    /\ Len(normalized.input) < MaxEndpoints
    /\ endpoint \notin SeqToSet(normalized.input)
    /\ normalized' = [normalized EXCEPT !.input = Append(@, endpoint)]
    /\ UNCHANGED <<apiSpec, patterns, endpointPatternFile, workerVars,
                   nPath, nOut, nPhase, probe, learned>>

NormalizeEndpoints ==
    /\ ~normalized.done
    /\ normalized' = [normalized EXCEPT
                         !.output = normalizeEndpoints(normalized.input, endpointPatternFile),
                         !.done = TRUE]
    /\ UNCHANGED <<apiSpec, patterns, endpointPatternFile, workerVars,
                   nPath, nOut, nPhase, probe, learned>>

NextEndpoints ==
    \/ \E endpoint \in EndpointInputs : AddEndpoint(endpoint)
    \/ NormalizeEndpoints

SpecEndpoints == InitEndpoints /\ [][NextEndpoints]_vars

\* the requests the tests make: <<config.method, config.url>>
Calls ==
    { <<"GET", "/users">>, <<"get", "/users/1">>, <<"GET", "/users/me">>,
      <<"GET", "/u/7">>, <<"DELETE", "/docs/507f1f77bcf86cd799439011">> }

\* the error responses the tests receive: <<config.method, pathname, status>>
ErrorCalls ==
    { <<"GET", "/users/1", 503>>, <<"GET", "/users/1", 500>>,
      <<"POST", "/users", 500>>, <<"GET", "/users", 404>>,
      <<"GET", "/users/me", 500>>, <<"GET", "/users/1", 0>> }

\* error.message of axios for a response outside 2xx
ErrorMessage(status) ==
    "Request failed with status code "
        \o (CASE status = 404 -> "404" [] status = 500 -> "500" [] OTHER -> "503")

\* String.prototype.substring(0, n)
Substring(s, n) == SubSeq(s, 1, IF Len(s) < n THEN Len(s) ELSE n)

RECURSIVE Orders(_)
\* the orders in which readdirSync may list the files of the workers in S
Orders(S) ==
    IF S = {} THEN {<<>>}
    ELSE UNION {{<<w>> \o rest : rest \in Orders(S \ {w})} : w \in S}

TotalRequests == requests["w1"].n + requests["w2"].n
TotalResponses == responses[0] + responses[404] + responses[500] + responses[503]

ObservedKeys == UNION {requests[w].keys : w \in Workers}

Init ==
    /\ \E d \in Deployments :
          /\ apiSpec = d.spec
          /\ patterns = MergedPatterns(d.custom, d.spec)
          /\ endpointPatternFile = d.filePatterns
    /\ WorkersIdle
    /\ FnIdle
    /\ nPath = ""
    /\ nOut = <<>>
    /\ nPhase = 0

\* ensureTempDirs: the coverage directory is removed with all it holds and
\* created again
ensureTempDirs(files) == [w \in Workers |-> NoFile]

\* A worker starts: the service is constructed with an empty hit set and an
\* empty error map and prepares the directories.
Start(w) ==
    /\ pc[w] = "idle"
    /\ pc' = [pc EXCEPT ![w] = "running"]
    /\ hitEndpoints' = [hitEndpoints EXCEPT ![w] = <<>>]
    /\ endpointErrors' = [endpointErrors EXCEPT ![w] = <<>>]
    /\ hitFile' = ensureTempDirs(hitFile)
    /\ errFile' = ensureTempDirs(errFile)
    /\ UNCHANGED <<apiSpec, patterns, endpointPatternFile, report, requests, responses,
                   completion, nPath, nOut, nPhase, fnVars>>

\* what a request interceptor can meet on its way: nothing, a throw of
\* normalizePath, a throw of writeFileSync, or the worker's process losing
\* the processor inside writeFileSync, between opening the file (which
\* empties it) and writing the data
Faults == {"none", "normalize", "write", "preempt"}

\* createRequestInterceptor: one request goes through the worker's
\* interceptor.  A config without URL or with a URL that cannot be parsed is
\* not tracked; when normalizePath throws the pathname is kept as it is; a
\* write that fails leaves the file as it was.
RequestInterceptor(w, config, fault) ==
    LET pathname == IF config.url = Undefined \/ config.url = "" THEN Undefined
                    ELSE UrlPathname(config.url)
        key == IF fault = "normalize"
               THEN ToUpperCase(IF config.method = "" THEN "GET" ELSE config.method)
                        \o " " \o pathname
               ELSE EndpointKey(config.method, pathname)
    IN /\ pc[w] = "running"
       /\ TotalRequests < MaxRequests
       /\ IF pathname = Undefined
          THEN /\ UNCHANGED <<pc, hitEndpoints, hitFile>>
               /\ requests' = [requests EXCEPT ![w].n = @ + 1]
          ELSE /\ hitEndpoints' = [hitEndpoints EXCEPT ![w] = TrackHit(@, key)]
               /\ hitFile' =
                     [hitFile EXCEPT ![w] =
                         CASE fault = "write" -> @
                           [] fault = "preempt" -> FileOf("text", <<>>)
                           [] OTHER -> saveHitEndpoints(hitEndpoints'[w])]
               /\ pc' = [pc EXCEPT ![w] = IF fault = "preempt" THEN "writing" ELSE @]
               /\ requests' = [requests EXCEPT
                                  ![w] = [keys |-> @.keys \cup {key}, n |-> @.n + 1]]
       /\ completion' = RequestCompletion(config)
       /\ UNCHANGED <<apiSpec, patterns, endpointPatternFile, endpointErrors, errFile,
                      report, responses, nPath, nOut, nPhase, fnVars>>

\* The worker's process runs again inside writeFileSync: the data is written
\* to the file it had opened, which the directory holds unless the directory
\* has been removed since, and the interceptor returns.
WriteFileSyncEnd(w) ==
    /\ pc[w] = "writing"
    /\ pc' = [pc EXCEPT ![w] = "running"]
    /\ hitFile' = [hitFile EXCEPT
                      ![w] = IF @.exists THEN saveHitEndpoints(hitEndpoints[w]) ELSE @]
    /\ UNCHANGED <<apiSpec, patterns, endpointPatternFile, hitEndpoints, endpointErrors,
                   errFile, report, requests, responses, completion, nPath, nOut, nPhase, fnVars>>

\* createResponseErrorInterceptor: one rejected request goes through the
\* worker's interceptor; only an error that has a response with a 5xx status
\* is recorded.  A pathname Undefined stands for a response without config.
ResponseErrorInterceptor(w, method, pathname, status) ==
    /\ pc[w] = "running"
    /\ TotalResponses < MaxResponses
    /\ IF status # 0 /\ IsServerError(status) /\ pathname # Undefined
       THEN /\ endpointErrors' =
                  [endpointErrors EXCEPT ![w] =
                      RecordError(@, EndpointKey(method, pathname), status,
                                  Substring(ErrorMessage(status), 200))]
            /\ errFile' = [errFile EXCEPT ![w] = saveErrors(endpointErrors'[w])]
       ELSE UNCHANGED <<endpointErrors, errFile>>
    /\ responses' = [responses EXCEPT ![status] = @ + 1]
    /\ completion' = ResponseCompletion(pathname, status)
    /\ UNCHANGED <<apiSpec, patterns, endpointPatternFile, pc, hitEndpoints, hitFile,
                   report, requests, nPath, nOut, nPhase, fnVars>>

\* what another program may leave in the place of a hit file: text that is
\* no JSON, the JSON of an object, and the JSON of an array of strings that
\* are no 'METHOD path' keys
ForeignContents ==
    { FileOf("text", <<>>), FileOf("object", <<>>), FileOf("array", <<"GETusers">>) }

\* The hit file of a worker is overwritten from outside the service.
ForeignWrite(w, content) ==
    /\ pc[w] # "idle"
    /\ pc[w] # "writing"
    /\ hitFile[w] # content
    /\ hitFile' = [hitFile EXCEPT ![w] = content]
    /\ UNCHANGED <<apiSpec, patterns, endpointPatternFile, pc, hitEndpoints, endpointErrors,
                   errFile, report, requests, responses, completion, nPath, nOut, nPhase, fnVars>>

\* path.replace(...) on the path of a key that has no space throws a
\* TypeError: in the grouping loop of getAllHitEndpoints for a hit, in that of
\* generateServerErrorStats for the key of an error record
AggregationThrows(allHitEndpoints, allServerErrors) ==
    \/ \E i \in 1..Len(allHitEndpoints) : SplitKey(allHitEndpoints[i]).path = Undefined
    \/ \E i \in 1..Len(allServerErrors) :
          SplitKey(allServerErrors[i].endpoint).path = Undefined

\* The after hook of a worker: the hit files and the error files of the
\* directory, the worker's own among them, are read in the order the
\* directory lists them and the report is written; no report is written when
\* the aggregation throws.  The report is kept with a record of what had been
\* observed when it was written, of the aggregated hits, and of the workers
\* that were inside writeFileSync when their file was read.
After(w) ==
    /\ pc[w] = "running"
    /\ \E hitOrder \in Orders({v \in Workers : hitFile[v].exists}),
          errOrder \in Orders({v \in Workers : errFile[v].exists}) :
          LET allHits == getAllHitEndpoints(hitEndpoints[w],
                                            ReadFiles(hitFile, hitOrder, "array"))
              errContents == ReadFiles(errFile, errOrder, "object")
              allErrors == getAllServerErrors(endpointErrors[w], errContents)
          IN IF AggregationThrows(UnionAll(hitEndpoints[w],
                                           ReadFiles(hitFile, hitOrder, "array")),
                                  allErrors)
             THEN UNCHANGED <<report, endpointErrors>>
             ELSE /\ report' =
                        [generateCoverageReport(extractEndpointsFromSpec(apiSpec),
                                                allHits, allErrors, endpointPatternFile)
                         EXCEPT !.exists = TRUE]
                        @@ [observed |-> ObservedKeys, seen |-> responses, by |-> w,
                            hits |-> allHits,
                            partial |-> {v \in Workers : pc[v] = "writing"}]
                  /\ endpointErrors' =
                        [endpointErrors EXCEPT ![w] = ErrorsAfterMerge(@, errContents)]
    /\ pc' = [pc EXCEPT ![w] = "done"]
    /\ UNCHANGED <<apiSpec, patterns, endpointPatternFile, hitEndpoints, hitFile, errFile,
                   requests, responses, completion, nPath, nOut, nPhase, fnVars>>

Next ==
    \/ \E w \in Workers : Start(w)
    \/ \E w \in Workers, call \in Calls :
          RequestInterceptor(w, RequestConfig(call[1], call[2]), "none")
    \/ \E w \in Workers, call \in ErrorCalls :
          ResponseErrorInterceptor(w, call[1], call[2], call[3])
    \/ \E w \in Workers : After(w)

Spec == Init /\ [][Next]_vars

\* Hit tracking and error tracking share no state: the runs in which the
\* tests receive no error response, and those in which only the error
\* responses are followed.
NextRequests ==
    \/ \E w \in Workers : Start(w)
    \/ \E w \in Workers, call \in Calls :
          RequestInterceptor(w, RequestConfig(call[1], call[2]), "none")
    \/ \E w \in Workers : After(w)

SpecRequests == Init /\ [][NextRequests]_vars

NextResponses ==
    \/ \E w \in Workers : Start(w)
    \/ \E w \in Workers, call \in ErrorCalls :
          ResponseErrorInterceptor(w, call[1], call[2], call[3])
    \/ \E w \in Workers : After(w)

SpecResponses == Init /\ [][NextResponses]_vars

\* The runs in which the interceptors meet what they are not made for:
\* configs without a usable URL, a throw of normalizePath, a write that
\* fails, errors without response and responses without config.  One
\* deployment is followed, up to the after hooks.
FaultConfigs ==
    { RequestConfig("GET", Undefined), RequestConfig("GET", "http://"),
      RequestConfig("", "http://localhost/users/1?page=2"),
      RequestConfig("GET", "users/me") }

FaultErrorCalls ==
    { <<"GET", Undefined, 500>>, <<"GET", "/users/1", 500>>, <<"GET", "/users/1", 0>> }

InitFaults == Init /\ apiSpec = UsersSpec

NextFaults ==
    \/ \E w \in Workers : Start(w)
    \/ \E w \in Workers, config \in FaultConfigs, fault \in Faults \ {"preempt"} :
          RequestInterceptor(w, config, fault)
    \/ \E w \in Workers, call \in FaultErrorCalls :
          ResponseErrorInterceptor(w, call[1], call[2], call[3])

SpecFaults == InitFaults /\ [][NextFaults]_vars

\* The runs in which the files of the directory are not what a reader
\* expects: a worker is held up inside writeFileSync while another one
\* aggregates, and hit files are overwritten from outside.
FileCalls == { <<"GET", "/users">>, <<"GET", "/users/1">> }

NextFiles ==
    \/ \E w \in Workers : Start(w)
    \/ \E w \in Workers, call \in FileCalls, fault \in Faults \ {"normalize", "write"} :
          RequestInterceptor(w, RequestConfig(call[1], call[2]), fault)
    \/ \E w \in Workers : WriteFileSyncEnd(w)
    \/ \E w \in Workers, content \in ForeignContents : ForeignWrite(w, content)
    \/ \E w \in Workers : After(w)

SpecFiles == InitFaults /\ [][NextFiles]_vars

\* The runs in which the tests use methods the document declares and
\* methods it does not declare for the path they request.
MethodCalls ==
    { <<"GET", "/users">>, <<"TRACE", "/users">>, <<"GET", "/users/1">>,
      <<"put", "/users/2">>, <<"POST", "/users/1">>, <<"DELETE", "/users">> }

InitMethods ==
    /\ apiSpec = TraceSpec
    /\ patterns = MergedPatterns(<<>>, TraceSpec)
    /\ endpointPatternFile = <<>>
    /\ WorkersIdle
    /\ FnIdle
    /\ nPath = ""
    /\ nOut = <<>>
    /\ nPhase = 0

NextMethods ==
    \/ \E w \in Workers : Start(w)
    \/ \E w \in Workers, call \in MethodCalls :
          RequestInterceptor(w, RequestConfig(call[1], call[2]), "none")
    \/ \E w \in Workers : After(w)

SpecMethods == InitMethods /\ [][NextMethods]_vars

\* The runs in which keys enter and leave the hit sets: no document is
\* loaded, one custom pattern makes templated keys, and the tests request
\* the same paths with two methods.
HitCalls ==
    { <<"GET", "/users/me">>, <<"POST", "/users/me">>, <<"GET", "/users/1">>,
      <<"post", "/users/2">>, <<"GET", "/users">>, <<"GET", "/users/1/posts">> }

InitHits == Init /\ apiSpec = NoSpec

NextHits ==
    \/ \E w \in Workers : Start(w)
    \/ \E w \in Workers, call \in HitCalls :
          RequestInterceptor(w, RequestConfig(call[1], call[2]), "none")

SpecHits == InitHits /\ [][NextHits]_vars

-----------------------------------------------------------------------------
(* Vocabulary of the properties *)

\* a {name} placeholder segment
IsPlaceholder(segment) == StartsWith(segment, "{") /\ EndsWith(segment, "}")

\* a templated path or key has at least one placeholder segment
IsTemplatedPath(path) ==
    \E i \in 1..Len(Segments(path)) : IsPlaceholder(Segments(path)[i])

\* a concrete path or key has no brace at all
IsConcrete(s) == ~Includes(s, "{") /\ ~Includes(s, "}")

\* structural match of a path against a template: same number of segments,
\* every segment of the template a placeholder or equal to the path's
StructurallyMatches(path, template) ==
    LET ps == Segments(path)
        ts == Segments(template)
    IN /\ Len(ps) = Len(ts)
       /\ \A i \in 1..Len(ts) : IsPlaceholder(ts[i]) \/ ts[i] = ps[i]

KeyMethod(key) == SplitKey(key).method
KeyPath(key) == SplitKey(key).path

\* a templated key holds both braces; a concrete key structurally matches it
\* when the methods are equal and the paths match structurally
IsTemplatedKey(key) == Includes(key, "{") /\ Includes(key, "}")
KeyMatches(concrete, templated) ==
    /\ IsTemplatedKey(templated)
    /\ ~IsTemplatedKey(concrete)
    /\ KeyMethod(concrete) = KeyMethod(templated)
    /\ StructurallyMatches(KeyPath(concrete), KeyPath(templated))

\* what a collection of observed keys comes down to: its templated keys and
\* the concrete keys that match none of them
Reconciled(keys) ==
    {k \in keys : IsTemplatedKey(k) \/ ~\E t \in keys : KeyMatches(k, t)}

NoDuplicates(a) == \A i, j \in 1..Len(a) : a[i] = a[j] => i = j

SpecKeys == SeqToSet(extractEndpointsFromSpec(apiSpec))

SlashPrefixed(path) == IF StartsWith(path, "/") THEN path ELSE "/" \o path

DeclaredPaths == SeqToSet(SpecPaths(apiSpec))

\* the declared templates the harness input matches structurally
MatchedTemplates ==
    {t \in DeclaredPaths : IsTemplatedPath(t) /\ StructurallyMatches(nPath, t)}

\* normalizePath gets as far as its patterns: the input is no declared path
\* and matches none structurally
ReachesPatterns ==
    /\ nPath # ""
    /\ SlashPrefixed(nPath) \notin DeclaredPaths
    /\ \A t \in DeclaredPaths : ~StructurallyMatches(nPath, t)

\* the usable patterns that accept the harness input
Accepting ==
    {i \in 1..Len(patterns) :
        /\ patterns[i].template # ""
        /\ RegexTest(patterns[i].pattern, SlashPrefixed(nPath))}

PatternResult(i) ==
    StringReplace(SlashPrefixed(nPath), patterns[i].pattern, patterns[i].template)

\* the accepting pattern of highest priority, the first declared among equals
Winner ==
    CHOOSE i \in Accepting :
        \A j \in Accepting :
            \/ patterns[j].priority < patterns[i].priority
            \/ patterns[j].priority = patterns[i].priority /\ i <= j

-----------------------------------------------------------------------------
(* Properties of normalizePath, checked under SpecNormalize *)

\* C3 as stated: a concrete path that structurally matches a declared
\* templated path t is normalized to t, whatever else the document declares.
C3_AlwaysTheMatchedTemplate ==
    (nPhase >= 1 /\ IsConcrete(nPath))
        => \A t \in MatchedTemplates : nOut[1] = t

\* C3 amended: a concrete path that structurally matches a declared templated
\* path is normalized to itself when it is a declared path, and otherwise to
\* the first declared path, in declaration order, that it matches.
C3_FirstDeclaredMatch ==
    (nPhase >= 1 /\ IsConcrete(nPath) /\ MatchedTemplates # {})
        => IF SlashPrefixed(nPath) \in DeclaredPaths
           THEN nOut[1] = SlashPrefixed(nPath)
           ELSE \E i \in 1..Len(apiSpec.paths) :
                   /\ nOut[1] = apiSpec.paths[i].path
                   /\ StructurallyMatches(nPath, apiSpec.paths[i].path)
                   /\ \A j \in 1..(i - 1) :
                         ~StructurallyMatches(nPath, apiSpec.paths[j].path)

\* C3 witness: a concrete path has been normalized to the overlapping
\* template declared first, not to the later one it also matches.
C3_Witness ==
    /\ nPhase >= 1
    /\ IsConcrete(nPath)
    /\ Cardinality(MatchedTemplates) >= 2
    /\ nOut[1] \in MatchedTemplates

C5_Idempotent ==
    nPhase = 2 => nOut[2] = nOut[1]

\* C5 amended: normalizing the result again changes nothing when the result
\* is empty, a declared path that starts with '/', or the slash-prefixed
\* input itself.
C5_IdempotentOnCanonical ==
    (/\ nPhase = 2
     /\ \/ nOut[1] = ""
        \/ nOut[1] \in DeclaredPaths /\ StartsWith(nOut[1], "/")
        \/ nOut[1] = SlashPrefixed(nPath))
        => nOut[2] = nOut[1]

\* C5 witness: a path was rewritten to a declared path, and normalizing that
\* again returned it unchanged.
C5_Witness ==
    /\ nPhase = 2
    /\ nOut[1] \in DeclaredPaths
    /\ nOut[1] # SlashPrefixed(nPath)
    /\ nOut[2] = nOut[1]

\* C6: the result of normalizePath always starts with '/'.
C6_SlashPrefixed ==
    nPhase >= 1 => StartsWith(nOut[1], "/")

-----------------------------------------------------------------------------
(* Properties of hit tracking and of the report, checked under SpecRequests *)

\* C1: within one worker, after any sequence of request observations, the
\* hit set never holds both a templated key and a concrete key of the same
\* method that structurally matches it.
C1_NoTemplateWithItsConcrete ==
    \A w \in Workers :
        \A t, c \in SeqToSet(hitEndpoints[w]) : ~KeyMatches(c, t)

\* C1: a worker has observed a templated key and a concrete key matching it,
\* and holds the templated one
C1_Witness ==
    \E w \in Workers :
        \E t, c \in requests[w].keys :
            KeyMatches(c, t) /\ t \in SeqToSet(hitEndpoints[w])

\* C2: the hit set of a worker is determined by the collection of keys it
\* has observed, whatever their order of arrival: it is the templated keys
\* observed and the concrete keys observed that match none of them; so a
\* templated key T and a concrete key C matching it leave {T} in both orders.
C2_OrderIndependent ==
    \A w \in Workers :
        /\ SeqToSet(hitEndpoints[w]) = Reconciled(requests[w].keys)
        /\ NoDuplicates(hitEndpoints[w])

\* C2: a worker has made two observations, a templated key and a concrete
\* key matching it, and its hit set is the templated key alone
C2_Witness ==
    \E w \in Workers :
        /\ requests[w].n = 2
        /\ \E t, c \in requests[w].keys :
              KeyMatches(c, t) /\ hitEndpoints[w] = <<t>>

\* C7: in every report, tested and untested are duplicate-free, disjoint and
\* together the spec keys, the counts add up to the total, and no spec key
\* is among the extra endpoints.
C7_ReportPartition ==
    report.exists =>
        LET tested == report.endpoints.tested
            untested == report.endpoints.untested
        IN /\ NoDuplicates(tested)
           /\ NoDuplicates(untested)
           /\ SeqToSet(tested) \cap SeqToSet(untested) = {}
           /\ SeqToSet(tested) \cup SeqToSet(untested) = SpecKeys
           /\ report.summary.totalEndpoints = Cardinality(SpecKeys)
           /\ report.summary.testedEndpoints = Len(tested)
           /\ report.summary.untestedEndpoints = Len(untested)
           /\ report.summary.testedEndpoints + report.summary.untestedEndpoints
                 = report.summary.totalEndpoints
           /\ SeqToSet(report.extraEndpoints) \cap SpecKeys = {}

\* C7: a report written after a spec key and a second key of the same
\* structure were both observed, the spec key reported tested
C7_Witness ==
    /\ report.exists
    /\ \E a \in SpecKeys, b \in report.observed :
          /\ a \in report.observed
          /\ a # b
          /\ HitStructureKey(a) = HitStructureKey(b)
          /\ a \in SeqToSet(report.endpoints.tested)

\* C8 as stated: a spec key is reported tested exactly when a request has
\* been observed with its method and a path normalizing to its path, and
\* coveragePercentage is tested/total*100 rounded to two decimals (held in
\* hundredths).
C8_TestedIffObserved ==
    report.exists =>
        /\ \A k \in SpecKeys :
              k \in SeqToSet(report.endpoints.tested) <=> k \in report.observed
        /\ LET total == Cardinality(SpecKeys)
               tested == Cardinality(SpecKeys \cap report.observed)
               hundredths == report.summary.coveragePercentage
           IN IF total = 0 THEN hundredths = 0
              ELSE /\ 2 * hundredths * total <= 20000 * tested + total
                   /\ 2 * hundredths * total > 20000 * tested - total

-----------------------------------------------------------------------------
(* Properties of error tracking, checked under SpecResponses *)

FiveXX == {status \in Statuses : status >= 500 /\ status < 600}

\* C9 as stated: totalServerErrors is the number of 5xx responses observed
\* across all workers, each counted once, and statusCodeCounts maps each
\* status to its number of occurrences.
C9_EachErrorOnce ==
    report.exists =>
        /\ report.serverErrorStats.totalServerErrors
              = report.seen[500] + report.seen[503]
        /\ report.serverErrorStats.statusCodeCounts
              = [status \in {c \in FiveXX : report.seen[c] > 0} |-> report.seen[status]]

CountsOf(errors) ==
    [endpoint \in SeqToSet(ErrorKeys(errors)) |->
        errors[ErrorIndex(errors, endpoint)].count]

CodesOf(errors) ==
    [endpoint \in SeqToSet(ErrorKeys(errors)) |->
        errors[ErrorIndex(errors, endpoint)].statusCodes]

TotalsOf(errors) ==
    LET stats == generateServerErrorStats(errors) IN
    <<stats.totalServerErrors, stats.statusCodeCounts>>

\* C10: whichever worker aggregates, merging the error files of the two
\* workers in one order and in the other gives the same count and the same
\* status-code histogram for every endpoint, and the same report totals.
C10_MergeCommutes ==
    \A w \in Workers :
        LET ab == getAllServerErrors(endpointErrors[w], ReadFiles(errFile, <<"w1", "w2">>, "object"))
            ba == getAllServerErrors(endpointErrors[w], ReadFiles(errFile, <<"w2", "w1">>, "object"))
        IN /\ CountsOf(ab) = CountsOf(ba)
           /\ CodesOf(ab) = CodesOf(ba)
           /\ TotalsOf(ab) = TotalsOf(ba)

\* C10: both workers have an error file, and the two files hold the same
\* endpoint with different histograms
C10_Witness ==
    /\ errFile["w1"].exists
    /\ errFile["w2"].exists
    /\ \E i \in 1..Len(errFile["w1"].data), j \in 1..Len(errFile["w2"].data) :
          /\ errFile["w1"].data[i].endpoint = errFile["w2"].data[j].endpoint
          /\ errFile["w1"].data[i].statusCodes # errFile["w2"].data[j].statusCodes

-----------------------------------------------------------------------------
(* Properties of aggregation and of the report, checked under SpecRequests *)

\* structural match of a hit against a spec key: equal methods, equal
\* segment counts, every segment of the spec key a placeholder or equal to
\* the hit's
HitMatchesSpecKey(hit, specKey) ==
    /\ KeyMethod(hit) = KeyMethod(specKey)
    /\ StructurallyMatches(KeyPath(hit), KeyPath(specKey))

\* C11 as stated: in every report, an aggregated hit that is no spec key but
\* structurally matches a spec key of its method (a concrete value against a
\* placeholder included) has such a spec key reported tested and is not
\* among the extra endpoints.
C11_StructuralMatchIsTested ==
    report.exists =>
        \A h \in SeqToSet(report.hits) \ SpecKeys :
            (\E k \in SpecKeys : HitMatchesSpecKey(h, k))
                => /\ \E k \in SeqToSet(report.endpoints.tested) : HitMatchesSpecKey(h, k)
                   /\ h \notin SeqToSet(report.extraEndpoints)

\* C14 as stated: the aggregated hit list of a report never holds a
\* templated key together with a concrete key of the same method that
\* structurally matches it.
C14_AggregateReconciled ==
    report.exists =>
        \A t, c \in SeqToSet(report.hits) : ~KeyMatches(c, t)

\* C12: every request observation of a worker, whether its key is inserted
\* or discarded, leaves the worker's hit file holding exactly the worker's
\* in-memory hit set (the writes of these runs all succeed).
C12_FileHoldsHitSet ==
    [][\A w \in Workers :
          requests'[w].n # requests[w].n
              => /\ hitFile'[w].exists
                 /\ SeqToSet(hitFile'[w].data) = SeqToSet(hitEndpoints'[w])
                 /\ NoDuplicates(hitFile'[w].data)]_vars

\* C12: a worker has made two observations of different keys, one of which
\* its hit set does not hold, and its file holds the templated key it kept
C12_Witness ==
    \E w \in Workers :
        /\ requests[w].n = 2
        /\ Cardinality(requests[w].keys) = 2
        /\ Len(hitEndpoints[w]) = 1
        /\ IsTemplatedKey(hitEndpoints[w][1])
        /\ hitFile[w].exists
        /\ hitFile[w].data = hitEndpoints[w]

\* C13 as stated: a worker's hit file and error file change only in steps
\* of that worker; no step of another worker (start-up, persistence,
\* aggregation) deletes or changes them.
C13_FilesChangeOnlyByOwner ==
    [][\A w \in Workers :
          (hitFile'[w] # hitFile[w] \/ errFile'[w] # errFile[w])
              => \/ pc'[w] # pc[w]
                 \/ requests'[w] # requests[w]
                 \/ endpointErrors'[w] # endpointErrors[w]]_vars

\* a hit is listed by an entry of extraEndpoints when the entry is the hit
\* itself or has its method and its segments, but for segments that hold a
\* placeholder
ListedAs(hit, entry) ==
    LET hs == Segments(KeyPath(hit))
        es == Segments(KeyPath(entry))
    IN /\ KeyMethod(hit) = KeyMethod(entry)
       /\ Len(hs) = Len(es)
       /\ \A i \in 1..Len(es) : es[i] = hs[i] \/ Includes(es[i], "{")

\* C18: when no spec could be loaded, the report has totalEndpoints 0, no
\* tested and no untested endpoint, coveragePercentage 0 and no method with
\* an endpoint, and every aggregated hit is listed among the extra endpoints.
C18_NoSpecAllExtra ==
    (report.exists /\ apiSpec.isNull) =>
        /\ report.summary.totalEndpoints = 0
        /\ report.summary.testedEndpoints = 0
        /\ report.summary.untestedEndpoints = 0
        /\ report.summary.coveragePercentage = 0
        /\ report.endpoints.tested = <<>>
        /\ report.endpoints.untested = <<>>
        /\ \A h \in SeqToSet(report.hits) :
              \E e \in SeqToSet(report.extraEndpoints) : ListedAs(h, e)
        /\ \A e \in SeqToSet(report.extraEndpoints) :
              \E h \in SeqToSet(report.hits) : ListedAs(h, e)

\* C18: a report written without a spec from two aggregated hits, a
\* templated one and a concrete one, both listed as extra
C18_Witness ==
    /\ report.exists
    /\ apiSpec.isNull
    /\ Len(report.hits) = 2
    /\ Len(report.extraEndpoints) = 2
    /\ \E t, c \in SeqToSet(report.hits) : IsTemplatedKey(t) /\ IsConcrete(c)

-----------------------------------------------------------------------------
(* Further properties of error tracking, checked under SpecResponses *)

C20_ErrorsMergedByStructure ==
    report.exists =>
        LET entries == report.serverErrorStats.errorsByEndpoint
            members(t) == SelectSeq(report.serverErrors, LAMBDA r :
                              r.endpoint = t \/ KeyMatches(r.endpoint, t))
        IN /\ \A i, j \in 1..Len(entries) :
                 ~KeyMatches(entries[i].endpoint, entries[j].endpoint)
           /\ \A i \in 1..Len(entries) :
                 IsTemplatedKey(entries[i].endpoint)
                     => entries[i].count = SumCounts(members(entries[i].endpoint))

-----------------------------------------------------------------------------
(* Properties of the interceptors under faults, checked under SpecFaults *)

\* C15: whatever the request config (URL missing, URL that cannot be parsed,
\* normalizePath throwing, write failing), the request interceptor returns
\* the config it was given and does not throw; whatever the error, the
\* response-error interceptor returns a rejection carrying that error.
C15_InterceptorsPassThrough ==
    /\ completion.of = "request" => (completion.kind = "return" /\ completion.same)
    /\ completion.of = "response" => (completion.kind = "reject" /\ completion.same)

\* C15: the last request had a URL that cannot be parsed or none, nothing
\* was tracked for it, and its interceptor returned its config
C15_Witness ==
    /\ completion = Completion("request", "return", TRUE)
    /\ \E w \in Workers :
          /\ requests[w].n = 1
          /\ requests[w].keys = {}
          /\ hitEndpoints[w] = <<>>

-----------------------------------------------------------------------------
(* Properties of the files, checked under SpecFiles *)

\* C16 as stated: whatever the hit files of the directory hold, the after
\* hook of a worker completes with a report written by that worker.
C16_AfterAlwaysReports ==
    [][\A w \in Workers :
          (pc[w] = "running" /\ pc'[w] = "done")
              => (report'.exists /\ report'.by = w)]_vars

\* C19 as stated: no report is written from a hit file read while its
\* worker was inside writeFileSync, that is, from partially written content.
C19_NoPartialRead ==
    report.exists => report.partial = {}

-----------------------------------------------------------------------------
(* Properties of the generated patterns, checked under SpecGenerate *)

IsDigits(s) == s # "" /\ \A i \in 1..Len(s) : IsDigit(CharAt(s, i))

IsHexRun(s, n) == Len(s) = n /\ \A i \in 1..Len(s) : IsHex(CharAt(s, i))

\* 8-4-4-4-12 hexadecimal digits
IsUuidShape(s) ==
    /\ Len(s) = 36
    /\ \A i \in 1..36 :
          IF i \in {9, 14, 19, 24} THEN CharAt(s, i) = "-" ELSE IsHex(CharAt(s, i))

\* dddd-dd-dd
IsDateShape(s) ==
    /\ Len(s) = 10
    /\ \A i \in 1..10 :
          IF i \in {5, 8} THEN CharAt(s, i) = "-" ELSE IsDigit(CharAt(s, i))

\* dd:dd
IsClockShape(s) ==
    Len(s) = 5 /\ CharAt(s, 3) = ":" /\ \A i \in {1, 2, 4, 5} : IsDigit(CharAt(s, i))

\* a date, T, dd:dd:dd, an optional fraction, and Z or a signed offset
IsDateTimeShape(s) ==
    LET n == Len(s)
        zone == IF EndsWith(s, "Z") THEN 1 ELSE 6
        fraction == SubSeq(s, 20, n - zone)
    IN /\ n >= 19 + zone
       /\ IsDateShape(SubSeq(s, 1, 10))
       /\ CharAt(s, 11) = "T"
       /\ IsClockShape(SubSeq(s, 12, 16))
       /\ CharAt(s, 17) = ":" /\ IsDigits(SubSeq(s, 18, 19))
       /\ fraction = "" \/ (StartsWith(fraction, ".") /\ IsDigits(SubSeq(fraction, 2, Len(fraction))))
       /\ \/ zone = 1
          \/ /\ CharAt(s, n - 5) \in {"+", "-"}
             /\ IsClockShape(SubSeq(s, n - 4, n))

\* the spec paths that hold a brace, in the order of the document
TemplatedItems(spec) ==
    IF ~HasPaths(spec) THEN <<>>
    ELSE SelectSeq(spec.paths, LAMBDA item : Includes(item.path, "{"))

\* every segment of the template is a placeholder or holds no brace
WholeSegments(template) ==
    \A i \in 1..Len(Segments(template)) :
        IsPlaceholder(Segments(template)[i]) \/ IsConcrete(Segments(template)[i])

PlaceholderName(segment) == SubSeq(segment, 2, Len(segment) - 1)

\* the parameters a path item declares, at path level and in its operations
DeclaredParameters(item) ==
    SeqToSet(item.parameters)
        \cup UNION {SeqToSet(item.ops[j].parameters) : j \in 1..Len(item.ops)}

\* the schemas of the components.parameters entries that the path item refers
\* to and that describe the parameter of that name
ReferencedSchemas(spec, item, name) ==
    {spec.components[RefName(q.ref)].schema :
        q \in {d \in DeclaredParameters(item) :
                  /\ d.ref # ""
                  /\ RefName(d.ref) \in DOMAIN spec.components
                  /\ spec.components[RefName(d.ref)].name = name}}

\* the rule list with the name rule unconditioned
ClaimedRule(name, info) ==
    IF info.pattern # <<>> THEN "pattern"
    ELSE IF info.enum # <<>> THEN "enum"
    ELSE IF info.type \in {"integer", "number"} THEN "digits"
    ELSE IF info.format = "uuid" THEN "uuid"
    ELSE IF info.format = "date" THEN "date"
    ELSE IF info.format = "date-time" THEN "date-time"
    ELSE IF Includes(ToLowerCase(name), "id") THEN "id"
    ELSE "any"

\* the rule list with the name rule for the parameters of type string only
MatcherRule(name, info) ==
    IF ClaimedRule(name, info) = "id" /\ info.type # "string" THEN "any"
    ELSE ClaimedRule(name, info)

\* what a rule accepts as the value of a placeholder segment
RuleAccepts(rule, info, segment) ==
    CASE rule = "pattern" -> RegexTest(Regex(info.pattern, TRUE, TRUE), segment)
      [] rule = "enum" -> segment \in SeqToSet(info.enum)
      [] rule = "digits" -> IsDigits(segment)
      [] rule = "uuid" -> IsUuidShape(segment)
      [] rule = "date" -> IsDateShape(segment)
      [] rule = "date-time" -> IsDateTimeShape(segment)
      [] rule = "id" -> IsDigits(segment) \/ IsUuidShape(segment) \/ IsHexRun(segment, 24)
      [] OTHER -> segment # ""

\* the path has the segments of the template, each placeholder holding a
\* value its rule accepts
TemplateAccepts(template, path, RuleOf(_), InfoOf(_)) ==
    LET ts == Split(template, "/")
        ps == Split(path, "/")
    IN /\ Len(ps) = Len(ts)
       /\ \A k \in 1..Len(ts) :
             IF IsPlaceholder(ts[k])
             THEN RuleAccepts(RuleOf(PlaceholderName(ts[k])),
                              InfoOf(PlaceholderName(ts[k])), ps[k])
             ELSE ps[k] = ts[k]

\* C21 as stated: a placeholder whose parameter the path item or an operation
\* declares as a reference to components.parameters is matched by the rule
\* of the referenced parameter's schema (digits only for an integer schema).
C21_ReferenceUsesItsSchema ==
    (probe.path # Undefined /\ Len(patterns) = Len(TemplatedItems(apiSpec))) =>
        \A i \in 1..Len(patterns) :
            LET item == TemplatedItems(apiSpec)[i]
                Referenced(name) == ReferencedSchemas(apiSpec, item, name)
                InfoOf(name) == CHOOSE schema \in Referenced(name) : TRUE
                RuleOf(name) == MatcherRule(name, InfoOf(name))
            IN (/\ WholeSegments(item.path)
                /\ \A k \in 1..Len(Segments(item.path)) :
                      IsPlaceholder(Segments(item.path)[k])
                          => Referenced(PlaceholderName(Segments(item.path)[k])) # {})
               => probe.accepts[i] = TemplateAccepts(item.path, probe.path, RuleOf, InfoOf)

\* C22 as stated: the name rule applies to every placeholder whose name
\* contains id and that no earlier rule claims.
C22_NameRuleUnconditioned ==
    probe.path # Undefined =>
        \A i \in 1..Len(patterns) :
            LET item == TemplatedItems(apiSpec)[i]
                InfoOf(name) == ParamInfo(apiSpec, item, name)
                RuleOf(name) == ClaimedRule(name, InfoOf(name))
            IN WholeSegments(item.path)
               => probe.accepts[i] = TemplateAccepts(item.path, probe.path, RuleOf, InfoOf)

\* C22: one pattern of priority 50 per spec path that holds a placeholder,
\* none for the other paths, and each placeholder is matched by the first
\* rule that applies to the schema found for it: schema pattern, enum,
\* integer or number type, format uuid, format date, format date-time, type
\* string with a name containing id, otherwise any run without a slash.
C22_MatcherByFirstRule ==
    /\ Len(patterns) = Len(TemplatedItems(apiSpec))
    /\ \A i \in 1..Len(patterns) :
          /\ patterns[i].priority = 50
          /\ patterns[i].template = TemplatedItems(apiSpec)[i].path
    /\ probe.path # Undefined =>
          \A i \in 1..Len(patterns) :
              LET item == TemplatedItems(apiSpec)[i]
                  InfoOf(name) == ParamInfo(apiSpec, item, name)
                  RuleOf(name) == MatcherRule(name, InfoOf(name))
              IN WholeSegments(item.path)
                 => probe.accepts[i] = TemplateAccepts(item.path, probe.path, RuleOf, InfoOf)

\* C22: a placeholder named id whose schema gives no type has been tested on
\* a word, and the pattern accepts it
C22_Witness ==
    /\ apiSpec = OnePathDoc("/users/{id}", <<Param("id", Schema("", "", <<>>, <<>>))>>,
                            <<>>, <<>>)
    /\ probe = [path |-> "/users/x", accepts |-> <<TRUE>>]

-----------------------------------------------------------------------------
(* Properties of the inferred patterns, checked under SpecInfer *)

\* the positions of the recorded paths that have the signature
SignatureGroup(signature) ==
    {i \in 1..Len(learned.paths) : PathSignature(learned.paths[i]) = signature}

\* some known pattern accepts the path
AlreadyAccepted(path) ==
    \E j \in 1..Len(patterns) : RegexTest(patterns[j].pattern, path)

\* the signatures shared by two recorded paths or more, not all of them
\* accepted by a known pattern
OpenSignatures ==
    {PathSignature(learned.paths[i]) : i \in
        {k \in 1..Len(learned.paths) :
            /\ Cardinality(SignatureGroup(PathSignature(learned.paths[k]))) >= 2
            /\ \E m \in SignatureGroup(PathSignature(learned.paths[k])) :
                  ~AlreadyAccepted(learned.paths[m])}}

\* C23: nothing is inferred from fewer than two paths; the patterns inferred
\* are one per signature that two recorded paths or more share and that some
\* known pattern leaves a member of unaccepted, none for the other
\* signatures; each has priority 30 and accepts the paths of its signature.
C23_InferredFromOpenGroups ==
    learned.done =>
        /\ Len(learned.paths) < 2 => learned.inferred = <<>>
        /\ Len(learned.inferred) = Cardinality(OpenSignatures)
        /\ \A i \in 1..Len(learned.inferred) :
              /\ learned.inferred[i].priority = 30
              /\ learned.inferred[i].priority < 50
              /\ \E signature \in OpenSignatures :
                    \A m \in SignatureGroup(signature) :
                        RegexTest(learned.inferred[i].pattern, learned.paths[m])

\* C23: three paths were recorded, two of one signature that the known
\* pattern accepts and one alone in its signature, and nothing was inferred
C23_Witness ==
    /\ learned.done
    /\ patterns = <<UsersPattern>>
    /\ learned.paths = <<"/users/1", "/users/me", "/users/2">>
    /\ learned.inferred = <<>>

-----------------------------------------------------------------------------
(* Properties of normalizeEndpoints, checked under SpecEndpoints *)

\* the substitutions of the pattern file turn the endpoint's path into one of
\* the shapes '{{', '}}', '}{'
SubstitutionRejected(endpoint) ==
    /\ ~Malformed(endpoint)
    /\ KeyPath(endpoint) # Undefined
    /\ Malformed(ApplyPatterns(KeyPath(endpoint), endpointPatternFile, 1))

\* C24: with a pattern file, no endpoint returned holds '{{', '}}' or '}{';
\* an endpoint whose substitution was rejected is returned with the path it
\* came with, unless another endpoint of the same structure stands for it.
C24_RejectedSubstitutionKeepsPath ==
    (normalized.done /\ Len(endpointPatternFile) > 0) =>
        /\ \A i \in 1..Len(normalized.output) : ~Malformed(normalized.output[i])
        /\ \A i \in 1..Len(normalized.input) :
              SubstitutionRejected(normalized.input[i]) =>
                 /\ \E j \in 1..Len(normalized.output) :
                       StructureKey(KeyMethod(normalized.output[j]), KeyPath(normalized.output[j]))
                           = StructureKey(KeyMethod(normalized.input[i]), KeyPath(normalized.input[i]))
                 /\ Len(normalized.input) = 1 => normalized.output = normalized.input

\* C24: the only endpoint given has a placeholder in front of a number, the
\* file replaces '/<number>' by '{id}', and the endpoint is returned as given
C24_Witness ==
    /\ normalized.done
    /\ endpointPatternFile = <<SlashNumberEndpointPattern>>
    /\ normalized.input = <<"GET /users/{userId}/5">>
    /\ normalized.output = <<"GET /users/{userId}/5">>

-----------------------------------------------------------------------------
(* Properties of the error records, checked under SpecResponses *)

\* C25 as stated: saveErrors persists every recorded error: the counts of
\* the records in a worker's error file add up to the counts of the records
\* the worker holds in memory, also when a concrete key was recorded before
\* the templated key that matches it.
C25_FileHoldsEveryError ==
    \A w \in Workers :
        errFile[w].exists =>
            SumCounts(errFile[w].data) = SumCounts(endpointErrors[w])

\* C26 as stated: getAllServerErrors does not modify the error map the
\* worker holds in memory: the after hook, which calls it, leaves every
\* record of the map as it was, its status-code histogram included.
C26_MergeLeavesMemoryAlone ==
    [][\A w \in Workers :
          (pc[w] = "running" /\ pc'[w] = "done") =>
              endpointErrors'[w] = endpointErrors[w]]_vars

RECURSIVE HistogramTotal(_)
\* the sum of the values of a status-code histogram
HistogramTotal(statusCodes) ==
    IF DOMAIN statusCodes = {} THEN 0
    ELSE LET c == CHOOSE x \in DOMAIN statusCodes : TRUE
         IN statusCodes[c]
            + HistogramTotal([x \in DOMAIN statusCodes \ {c} |-> statusCodes[x]])

CountIsHistogramTotal(records) ==
    \A i \in 1..Len(records) :
        records[i].count = HistogramTotal(records[i].statusCodes)

\* C27: while a worker observes responses every record of its error map
\* has count equal to the sum of the values of its statusCodes; the same
\* holds for every record of the map merged from that worker's map and the
\* error files, in whichever order the files are listed, and in the
\* statistics computed from a merged map totalServerErrors is the sum of
\* the values of statusCodeCounts.
C27_CountIsHistogramTotal ==
    /\ \A w \in Workers :
          pc[w] = "running" =>
              /\ CountIsHistogramTotal(endpointErrors[w])
              /\ \A order \in Orders(Workers) :
                    LET merged == getAllServerErrors(endpointErrors[w],
                                     ReadFiles(errFile, order, "object"))
                        stats == generateServerErrorStats(merged)
                    IN /\ CountIsHistogramTotal(merged)
                       /\ stats.totalServerErrors
                             = HistogramTotal(stats.statusCodeCounts)
    /\ report.exists =>
          /\ CountIsHistogramTotal(report.serverErrors)
          /\ report.serverErrorStats.totalServerErrors
                = HistogramTotal(report.serverErrorStats.statusCodeCounts)

\* C27: a report has been built from a merged record that two files
\* contribute to and whose histogram has two statuses, while another
\* worker, still observing, has recorded errors of its own
C27_Witness ==
    /\ report.exists
    /\ \E i \in 1..Len(report.serverErrors) :
          /\ report.serverErrors[i].count >= 2
          /\ Cardinality(DOMAIN report.serverErrors[i].statusCodes) = 2
    /\ \E w \in Workers :
          /\ pc[w] = "running"
          /\ errFile[w].exists

-----------------------------------------------------------------------------
(* Properties of the report's method figures, checked under SpecMethods *)

RECURSIVE SumOver(_, _)
\* the sum of one figure over the methods listed in methodCoverage
SumOver(methodCoverage, figure) ==
    IF methodCoverage = <<>> THEN 0
    ELSE (IF figure = "total" THEN Head(methodCoverage).total
          ELSE Head(methodCoverage).tested)
         + SumOver(Tail(methodCoverage), figure)

\* C28 as stated: in every report the totals of the listed methods add up
\* to summary.totalEndpoints and their tested figures add up to
\* summary.testedEndpoints, also for a document that declares TRACE
\* operations.
C28_MethodFiguresAddUp ==
    report.exists =>
        /\ SumOver(report.methodCoverage, "total") = report.summary.totalEndpoints
        /\ SumOver(report.methodCoverage, "tested") = report.summary.testedEndpoints

\* the spec keys a hit can stand for: those of its method whose path it is
\* or matches structurally
DeclaredFor(hit) == {k \in SpecKeys : HitMatchesSpecKey(hit, k)}

\* the path of the hit is declared, or matches a declared template
OnDeclaredPath(hit) ==
    \E t \in DeclaredPaths :
        KeyPath(hit) = t \/ StructurallyMatches(KeyPath(hit), t)

\* C29: in every report each spec key reported tested has an aggregated hit
\* of its own method on its path, and an aggregated hit on a declared path
\* or template with a method the document does not declare there is listed
\* among the extra endpoints.
C29_TestedOnlyBySameMethod ==
    report.exists =>
        /\ \A k \in SeqToSet(report.endpoints.tested) :
              \E h \in SeqToSet(report.hits) : HitMatchesSpecKey(h, k)
        /\ \A h \in SeqToSet(report.hits) :
              (OnDeclaredPath(h) /\ DeclaredFor(h) = {})
                  => \E e \in SeqToSet(report.extraEndpoints) : ListedAs(h, e)

\* C29: a report built from a POST on the template that declares GET and
\* PUT only, and from nothing else on that template: the POST is extra and
\* no key of the template is tested
C29_Witness ==
    /\ report.exists
    /\ "POST /users/{id}" \in SeqToSet(report.hits)
    /\ "POST /users/{id}" \in SeqToSet(report.extraEndpoints)
    /\ "GET /users" \in SeqToSet(report.endpoints.tested)
    /\ "GET /users/{id}" \in SeqToSet(report.endpoints.untested)
    /\ "PUT /users/{id}" \in SeqToSet(report.endpoints.untested)

-----------------------------------------------------------------------------
(* Properties of the hit sets over time, checked under SpecHits *)

\* C30: in every step, a key that leaves a worker's hit set is a concrete
\* key, and the step inserts into that set a templated key of the same
\* method that the concrete key structurally matches; so a templated key,
\* once in the set, stays.
C30_KeysLeaveOnlyForTheirTemplate ==
    [][\A w \in Workers :
          \A k \in SeqToSet(hitEndpoints[w]) \ SeqToSet(hitEndpoints'[w]) :
              /\ ~IsTemplatedKey(k)
              /\ \E t \in SeqToSet(hitEndpoints'[w]) \ SeqToSet(hitEndpoints[w]) :
                    KeyMatches(k, t)]_vars

\* C30: a worker has observed a concrete key and the templated key of the
\* same method that it matches, and holds the templated key alone
C30_Witness ==
    \E w \in Workers :
        /\ requests[w].keys = {"GET /users/me", "GET /users/{userId}"}
        /\ hitEndpoints[w] = <<"GET /users/{userId}">>

====
